---- MODULE Spec2Model ----
(***************************************************************************)
(* Content360 core: job admission (POST /v1/jobs/create), quota holds,     *)
(* idempotency index, dispatch queue and the BullMQ worker.                *)
(*                                                                         *)
(* The relational store is modelled table by table.  A transaction of the  *)
(* admission handler runs at PostgreSQL's default isolation level (READ    *)
(* COMMITTED, the handler issues a plain BEGIN): every statement reads the *)
(* rows committed when it runs, and the rows a transaction inserts become  *)
(* visible to the others at its COMMIT.  All ledger rows are taken to lie  *)
(* in the current calendar month (no month rollover during a run).         *)
(***************************************************************************)
EXTENDS Integers, FiniteSets, Sequences, TLC

(* ----------------------------- bounds ---------------------------------- *)
\* store statements of the worker that may fail during one run
MaxFaults == 1
\* store statements of the failure handler that may fail during one run
MaxHandlerFaults == 1
\* duplicate deliveries of a job id the queue may make during one run
MaxRedeliveries == 1
\* administrative requests received during one run
MaxAdminOps == 1
\* largest in-range item count a request carries (besides ITEMS_MAX + 1)
MaxItems == 2
\* event-log writes that may fail during one run
MaxEventFaults == 1
\* the clock advances in steps of TickMs milliseconds, up to MaxClock
TickMs == 2500
MaxClock == 10000
\* changes of the force_degraded flag during one run
MaxFlagOps == 1

(* ------------------------ program constants ---------------------------- *)
ITEMS_MAX == 50
DEFAULT_QUOTA == 500
DEFAULT_PER == 8
\* queue.add(..., {attempts: 3})
ATTEMPTS == 3
\* isForceDegraded: the cached flag is used while it is younger than this (ms)
DEGRADED_TTL == 5000

ALLOWED_MODES == {"quick_boost", "full_content", "ecom_catalog"}

AEJ_ESTIMATE_PER_ITEM(mode) ==
  CASE mode = "quick_boost" -> 8
    [] mode = "full_content" -> 12
    [] mode = "ecom_catalog" -> 12
    [] OTHER -> 0

(* ------------------------------ universe ------------------------------- *)
Tenants == {"t1", "t2"}
\* the admission requests of a run (two, so that two transactions overlap)
Reqs == {1, 2}
\* a job row gets a fresh id at its INSERT: the row request r inserts has id r, and
\* the job admitted before the run has id 0
PriorJob == 1 - 1
JobIds == Reqs \cup {PriorJob}
NoKey == "none"
IdemKeys == {"k1"}
\* SQL NULL of an integer column, of a text column, and of result_json
NullInt == 0 - 1
NoRow == NullInt
NULL == "NULL"
NullResult == [isnull |-> TRUE, source |-> "-", llm_error |-> "-", exec |-> {}]
\* c360_site_settings as configured: t1 has a monthly quota of 20, t2 a quota of 0
\* or no settings row
SettingsChoices == {[t1 |-> 20, t2 |-> 0], [t1 |-> 20, t2 |-> NoRow]}
ModeInputs == ALLOWED_MODES \cup {"bad_mode"}
ItemInputs == (0..MaxItems) \cup {ITEMS_MAX + 1}
\* request bodies: every mode and item count with well-formed fields, and one body
\* with an unexpected or missing field
Bodies ==
  [mode : ModeInputs, items : ItemInputs, fieldsOk : {TRUE}]
    \cup {[mode |-> "quick_boost", items |-> 1, fieldsOk |-> FALSE]}

VARIABLES
  settings,   \* c360_site_settings: tenant -> monthly_quota_aej, or NoRow
  jobs,       \* c360_jobs: job id -> row, for the ids that have a row
  holds,      \* c360_aej_holds: job id (primary key) -> row
  idem,       \* c360_idempotency: set of rows, primary key (client_id, idem_key)
  ledger,     \* c360_aej_logs: set of rows
  decisions,  \* c360_decision_log: set of rows
  queue,      \* dispatch queue: waiting job id -> attempts made so far
  rq,         \* admission requests: request -> handler position and locals
  wk,         \* worker slots: slot -> processor position and locals
  faults,     \* store statements of the worker that have failed so far
  redeliveries, \* duplicate deliveries the queue has made so far
  adm,        \* the administrative request in progress: position and job id
  adminOps,   \* administrative requests received so far
  events,     \* c360_job_events: set of rows (equal rows are kept once)
  pend,       \* event-log writes that were called and have not returned yet
  evFaults,   \* event-log writes that have failed so far
  flag,       \* c360_admin_flags: the value under key force_degraded, NULL without a row
  flagSince,  \* the time the flag's value last changed
  flagOps,    \* changes of the flag so far
  clock,      \* Date.now()
  cachedDegraded, \* the worker process's cached flag: value and time of the call
  qr          \* the last status or result query and its answer

vars == <<settings, jobs, holds, idem, ledger, decisions, queue, rq, wk, faults,
          redeliveries, adm, adminOps, events, pend, evFaults, flag, flagSince, flagOps,
          clock, cachedDegraded, qr>>
\* the durable flag and the clock, and the last query (which only a query changes)
flagVars == <<flag, flagSince, flagOps, clock, qr>>
\* the event log and its writes in progress
evVars == <<events, pend, evFaults>>
\* what no step of the admission handler touches, the event log apart
admBase == <<settings, ledger, decisions, wk, faults, redeliveries, adm, adminOps, flagVars,
            cachedDegraded>>
\* what a step of the admission handler that logs no event leaves alone
admFrame == <<admBase, evVars>>
\* what no step of the worker touches
genFrame == <<settings, idem, rq, flagVars>>
\* what no step of the worker but the flag refresh touches, the event log apart
wrkBase == <<genFrame, cachedDegraded>>
\* what a step of the worker that logs no event leaves alone
wrkFrame == <<wrkBase, evVars>>
\* the administrative request, which no worker step touches
admVars == <<adm, adminOps>>

(* ------------------------------ helpers -------------------------------- *)
RECURSIVE SumAej(_)
SumAej(rows) ==
  IF rows = {} THEN 0
  ELSE LET x == CHOOSE y \in rows : TRUE
       IN x.aej + SumAej(rows \ {x})

\* SELECT COALESCE(SUM(aej_used),0) FROM c360_aej_logs WHERE client_id=$1 (this month)
ConsumedOf(lg, c) == SumAej({x \in lg : x.client_id = c})

HeldRows(hs, c) ==
  {[job_id |-> j, aej |-> hs[j].aej_estimated] :
      j \in {i \in DOMAIN hs : hs[i].client_id = c /\ hs[i].status = "held"}}

\* SELECT COALESCE(SUM(aej_estimated),0) FROM c360_aej_holds WHERE client_id=$1 AND status='held'
HeldOf(hs, c) == SumAej(HeldRows(hs, c))

\* faulty variant: the validation forgets the upper bound of the item count
validateCreatePayloadNoMax(body) ==
  /\ body.fieldsOk
  /\ body.mode \in ALLOWED_MODES
  /\ body.items >= 1

\* validateCreatePayload: ok iff no error was pushed
validateCreatePayload(body) ==
  /\ body.fieldsOk
  /\ body.mode \in ALLOWED_MODES
  /\ body.items >= 1
  /\ ~(body.items > ITEMS_MAX)

Max(a, b) == IF a >= b THEN a ELSE b

\* faulty variant: the estimate forgets the item count
AejEstimatedPerRequest(mode, items) == Max(1, AEJ_ESTIMATE_PER_ITEM(mode))

\* const per = AEJ_ESTIMATE_PER_ITEM[mode] || 8; Math.max(1, per * itemsCount)
AejEstimated(mode, items) ==
  LET p == AEJ_ESTIMATE_PER_ITEM(mode)
      per == IF p = 0 THEN DEFAULT_PER ELSE p
  IN Max(1, per * items)

\* Number(quotaR.rows[0]?.monthly_quota_aej || 500)
QuotaOf(st, c) == IF st[c] = NoRow \/ st[c] = 0 THEN DEFAULT_QUOTA ELSE st[c]

\* faulty variant: the lookup compares the wrong column and finds nothing
IdemLookupNothing(ix, c, k) == {x \in ix : x.client_id = k /\ x.idem_key = c}

\* faulty variant: the lookup forgets the tenant
IdemLookupAnyTenant(ix, c, k) == {x \in ix : x.idem_key = k}

\* SELECT job_id FROM c360_idempotency WHERE client_id=$1 AND idem_key=$2
IdemLookup(ix, c, k) == {x \in ix : x.client_id = c /\ x.idem_key = k}

\* the quota test of the handler
OverQuota(consumed, held, est, quota) == consumed + held + est > quota

\* queue.add("run", {job_id}, {jobId, attempts: 3, ...}): one entry per job id
QueueAdd(qu, j) == IF j \in DOMAIN qu THEN qu ELSE qu @@ (j :> 0)

(* ------------------------------ responses ------------------------------ *)
NoResp == [code |-> "none", job_id |-> 0, status |-> "-", idempotent |-> FALSE,
           aej_estimated |-> 0, quota |-> 0, consumed |-> 0, held |-> 0,
           needed |-> 0, remaining |-> 0]

RespOk(j, est, hit) ==
  [NoResp EXCEPT !.code = "ok", !.job_id = j, !.status = "queued",
                 !.idempotent = hit, !.aej_estimated = est]

RespQuota(quota, consumed, held, est) ==
  [NoResp EXCEPT !.code = "quota_exceeded", !.quota = quota, !.consumed = consumed,
                 !.held = held, !.needed = est,
                 !.remaining = Max(0, quota - consumed - held)]

RespSchema == [NoResp EXCEPT !.code = "schema_invalid"]
RespError == [NoResp EXCEPT !.code = "job_create_error"]

IdleReq == [pc |-> "idle", tenant |-> "-", mode |-> "-", items |-> 0, fieldsOk |-> TRUE,
            key |-> NoKey, est |-> 0, quota |-> 0, consumed |-> 0, held |-> 0,
            resp |-> NoResp, log |-> NULL]

\* the handler has answered: only the request and its response are kept
Answer(q, resp) ==
  [q EXCEPT !.pc = "done", !.est = 0, !.quota = 0, !.consumed = 0, !.held = 0,
            !.resp = resp]

\* the catch block: ROLLBACK, console.error of the message, 500 job_create_error
AnswerError(q, msg) == [Answer(q, RespError) EXCEPT !.log = msg]

JobRow(q) ==
  [client_id |-> q.tenant, mode |-> q.mode, status |-> "queued", progress |-> 0,
   request_json |-> [mode |-> q.mode, items |-> q.items], result |-> NullResult, idempotency_key |-> q.key,
   aej_estimated |-> q.est, aej_final |-> NullInt, error_text |-> NULL, finished |-> FALSE]

HoldRow(q) == [client_id |-> q.tenant, aej_estimated |-> q.est, status |-> "held"]

IdemRow(q, j) == [client_id |-> q.tenant, idem_key |-> q.key, job_id |-> j]

(* --------------------------- worker helpers ---------------------------- *)
Slots == {1, 2}
Stages == {"analyse", "decision", "generation", "application"}
\* callOpenAI returns, or the generation step fails with one of these messages
BackendErrors == {"force_degraded", "OPENAI_API_KEY_MISSING"}

IdleSlot == [pc |-> "idle", job |-> 0, attempt |-> 0, client_id |-> "-", mode |-> "-",
             seen |-> "-", source |-> "-", llm_error |-> NULL, total |-> 0, err |-> NULL,
             now |-> 0, forced |-> "-"]

\* faulty variant: the cached value never expires
CachedForcedNoExpiry(cache, now) ==
  IF cache.at # 0
  THEN IF cache.v = "1" THEN "yes" ELSE "no"
  ELSE "miss"

\* isForceDegraded up to its await: the cached value when it is younger than the
\* TTL ("yes" or "no"), else "miss" and the flag is read from the store
CachedForced(cache, now) ==
  IF cache.at # 0 /\ now - cache.at < DEGRADED_TTL
  THEN IF cache.v = "1" THEN "yes" ELSE "no"
  ELSE "miss"

\* normalizeMode
normalizeMode(mode) ==
  IF mode = NULL THEN "quick_boost"
  ELSE IF mode = "full" THEN "full_content"
  ELSE mode

\* the top-level properties of the mode's strict output schema
SchemaProperties(mode) ==
  CASE mode = "quick_boost" ->
         {"mode", "title", "meta_description", "intro", "h2", "faq", "seo"}
    [] mode = "full_content" ->
         {"mode", "title", "meta_description", "outline", "content_html", "faq", "seo",
          "checks"}
    [] mode = "ecom_catalog" -> {"mode", "product", "seo"}
    [] OTHER -> {}

\* the top-level fields the mode's schema requires
SchemaRequired(mode) ==
  CASE mode = "quick_boost" ->
         {"mode", "title", "meta_description", "intro", "h2", "faq", "seo"}
    [] mode = "full_content" ->
         {"mode", "title", "meta_description", "outline", "content_html", "faq", "seo",
          "checks"}
    [] mode = "ecom_catalog" -> {"mode", "product", "seo"}
    [] OTHER -> {}

\* buildDeterministicFallback: the top-level fields of the placeholder it returns
buildDeterministicFallback(mode) ==
  IF mode = "ecom_catalog" THEN {"mode", "product", "seo"}
  ELSE IF mode = "full_content"
       THEN {"mode", "title", "meta_description", "outline", "intro", "sections", "faq",
             "tags"}
  ELSE {"mode", "title", "meta_description", "intro", "reassurance", "faq"}

\* UPDATE c360_jobs SET <patch> WHERE id=$n
setJob(js, j, patch) ==
  IF j \in DOMAIN js
  THEN [js EXCEPT ![j] = [f \in DOMAIN js[j] |->
                            IF f \in DOMAIN patch THEN patch[f] ELSE js[j][f]]]
  ELSE js

\* faulty variant: the release removes the job's hold row, whatever its status
releaseHoldDelete(hs, c, j) == [k \in DOMAIN hs \ {j} |-> hs[k]]

\* UPDATE c360_aej_holds SET status='released'
\*   WHERE job_id=$1 AND client_id=$2 AND status='held'
releaseHold(hs, c, j) ==
  IF j \in DOMAIN hs /\ hs[j].client_id = c /\ hs[j].status = "held"
  THEN [hs EXCEPT ![j].status = "released"]
  ELSE hs

\* rows of the ledger with the unique key (client_id, job_id, stage)
LedgerRows(lg, c, j, stage) ==
  {x \in lg : x.client_id = c /\ x.job_id = j /\ x.stage = stage}

\* faulty variant: a plain INSERT, without ON CONFLICT DO NOTHING
logAEJPlainInsert(lg, c, j, stage, aej_used) ==
  lg \cup {[client_id |-> c, job_id |-> j, stage |-> stage, aej |-> aej_used,
            dup |-> Cardinality(LedgerRows(lg, c, j, stage))]}

\* INSERT INTO c360_aej_logs ... ON CONFLICT (client_id, job_id, stage) DO NOTHING
logAEJ(lg, c, j, stage, aej_used) ==
  IF LedgerRows(lg, c, j, stage) # {} THEN lg
  ELSE lg \cup {[client_id |-> c, job_id |-> j, stage |-> stage, aej |-> aej_used,
                 dup |-> 0]}

\* SELECT COALESCE(SUM(aej_used),0) FROM c360_aej_logs WHERE client_id=$1 AND job_id=$2
computeAEJTotal(lg, c, j) == SumAej({x \in lg : x.client_id = c /\ x.job_id = j})

DecisionRows(ds, c, j, type) ==
  {x \in ds : x.client_id = c /\ x.job_id = j /\ x.decision_type = type}

\* INSERT INTO c360_decision_log ... ON CONFLICT (client_id, job_id, decision_type)
\*   DO NOTHING
logDecision(ds, c, j, type) ==
  IF DecisionRows(ds, c, j, type) # {} THEN ds
  ELSE ds \cup {[client_id |-> c, job_id |-> j, decision_type |-> type, dup |-> 0]}

\* the generation stage costs 5 when the backend answered, 1 otherwise
GenerationCost(source) == IF source = "openai" THEN 5 ELSE 1

ResultPayload(exec, source, llm_error) ==
  [isnull |-> FALSE, source |-> source, llm_error |-> llm_error, exec |-> exec]

IdleAdmin == [pc |-> "idle", job |-> 0, st |-> "-"]

\* the statuses the lifecycle calls terminal
Terminal == {"done", "error", "canceled"}

\* the columns of c360_aej_holds
HoldsColumns == {"job_id", "client_id", "aej_estimated", "status", "created_at",
                 "released_at"}

(* ------------------- GET /v1/jobs/:id/status, /result ------------------ *)
\* 404 job_not_found: the answer carries nothing of a job
NotFound == [code |-> "job_not_found", status |-> "-", progress |-> NullInt,
             mode |-> "-", result |-> NullResult]

\* no query was made yet
NoQuery == [kind |-> "-", client_id |-> "-", job_id |-> NoRow, resp |-> NotFound]

\* faulty variant: the row is selected by its id alone
SelectJobAnyTenant(js, c, j) == IF j \in DOMAIN js THEN {js[j]} ELSE {}

\* SELECT ... FROM c360_jobs WHERE id=$1 AND client_id=$2
SelectJob(js, c, j) ==
  IF j \in DOMAIN js /\ js[j].client_id = c THEN {js[j]} ELSE {}

\* the status endpoint: id, status, progress, mode of the row, or 404
StatusAnswer(js, c, j) ==
  IF SelectJob(js, c, j) = {} THEN NotFound
  ELSE LET row == CHOOSE x \in SelectJob(js, c, j) : TRUE
       IN [code |-> "ok", status |-> row.status, progress |-> row.progress,
           mode |-> row.mode, result |-> NullResult]

\* the result endpoint: status, progress and result_json || null of the row, or 404
ResultAnswer(js, c, j) ==
  IF SelectJob(js, c, j) = {} THEN NotFound
  ELSE LET row == CHOOSE x \in SelectJob(js, c, j) : TRUE
       IN [code |-> "ok", status |-> row.status, progress |-> row.progress,
           mode |-> "-", result |-> row.result]

(* ------------------------------ event log ------------------------------ *)
\* the row logJobEvent inserts for a write (message and meta are left out)
EventRow(e) == [job_id |-> e.job_id, event_type |-> e.event_type]

\* the logJobEvent calls of one step of process (kind, id) for job j
EventCalls(kind, id, j, types) ==
  {[kind |-> kind, id |-> id, job_id |-> j, event_type |-> t] : t \in types}

\* process (kind, id) has called logJobEvent and the call has not returned
Blocked(kind, id) == \E e \in pend : e.kind = kind /\ e.id = id

\* await logJobEvent(...) for each of the types: while a write may still fail the
\* call is a step of its own (WriteEvent) that the caller waits for; a write that
\* cannot fail inserts its row in the caller's step
LogEvents(kind, id, j, types) ==
  /\ evFaults' = evFaults
  /\ IF evFaults < MaxEventFaults
     THEN /\ pend' = pend \cup EventCalls(kind, id, j, types)
          /\ events' = events
     ELSE /\ events' = events \cup {EventRow(e) : e \in EventCalls(kind, id, j, types)}
          /\ pend' = pend

\* faulty variant: logJobEvent without its try/catch, the failed INSERT is thrown to
\* the caller (the processor fails, the create handler answers 500)
WriteEventUncaught(e) ==
  /\ e \in pend
  /\ pend' = pend \ {e}
  /\ \/ /\ events' = events \cup {EventRow(e)}
        /\ UNCHANGED <<evFaults, wk, rq, queue>>
     \/ /\ evFaults < MaxEventFaults
        /\ evFaults' = evFaults + 1
        /\ events' = events
        /\ IF e.kind = "wk"
           THEN /\ wk' = [wk EXCEPT ![e.id] =
                           [IdleSlot EXCEPT !.pc = "fload", !.job = wk[e.id].job,
                                            !.attempt = wk[e.id].attempt,
                                            !.err = "event_log_error"]]
                /\ UNCHANGED <<rq, queue>>
           ELSE IF e.kind = "rq"
           THEN /\ rq' = [rq EXCEPT ![e.id].resp.code = "job_create_error"]
                /\ UNCHANGED <<wk, queue>>
           ELSE UNCHANGED <<wk, rq, queue>>
  /\ UNCHANGED <<settings, jobs, holds, idem, ledger, decisions, faults, redeliveries,
                 adm, adminOps, flagVars, cachedDegraded>>

\* logJobEvent: INSERT INTO c360_job_events inside try/catch; the INSERT succeeds, or
\* it fails and the failure is swallowed
WriteEvent(e) ==
  /\ e \in pend
  /\ pend' = pend \ {e}
  /\ \/ /\ events' = events \cup {EventRow(e)}
        /\ evFaults' = evFaults
     \/ /\ evFaults < MaxEventFaults
        /\ evFaults' = evFaults + 1
        /\ events' = events
  /\ UNCHANGED <<settings, jobs, holds, idem, ledger, decisions, queue, rq, wk, faults,
                 redeliveries, adm, adminOps, flagVars, cachedDegraded>>

(* ------------------------------- Init ---------------------------------- *)
\* the request that admitted the job present before the run, and its rows
PriorReq(mode) == [IdleReq EXCEPT !.tenant = "t1", !.mode = mode, !.items = 1,
                                  !.key = "k1", !.est = AejEstimated(mode, 1)]

\* nothing is in flight: no request, no worker execution, no administrative request;
\* the event log is empty and none of its writes will fail; the worker process has
\* just started and has not read the flag yet
Quiet ==
  /\ rq = [r \in Reqs |-> IdleReq]
  /\ wk = [w \in Slots |-> IdleSlot]
  /\ adm = IdleAdmin
  /\ faults = 0
  /\ redeliveries = 0
  /\ adminOps = 0
  /\ events = {}
  /\ pend = {}
  /\ evFaults = MaxEventFaults
  /\ flagSince = 0
  /\ flagOps = 0
  /\ clock = TickMs
  /\ cachedDegraded = [v |-> NULL, at |-> 0]
  /\ qr = NoQuery

\* an empty store
InitEmpty ==
  /\ jobs = << >>
  /\ holds = << >>
  /\ idem = {}
  /\ ledger = {}
  /\ decisions = {}
  /\ queue = << >>

\* one job of tenant t1 was admitted with token k1 and waits in the queue
InitQueued(mode) ==
  /\ jobs = (PriorJob :> JobRow(PriorReq(mode)))
  /\ holds = (PriorJob :> HoldRow(PriorReq(mode)))
  /\ idem = {IdemRow(PriorReq(mode), PriorJob)}
  /\ ledger = {}
  /\ decisions = {}
  /\ queue = (PriorJob :> 0)

\* the same job after an administrative cancel that completed before any worker
\* loaded it, its queue entry still waiting (the removal is best effort)
InitCanceled(mode) ==
  /\ jobs = (PriorJob :> [JobRow(PriorReq(mode)) EXCEPT !.status = "canceled",
                                                        !.error_text = ""])
  /\ holds = (PriorJob :> [HoldRow(PriorReq(mode)) EXCEPT !.status = "released"])
  /\ idem = {IdemRow(PriorReq(mode), PriorJob)}
  /\ ledger = {}
  /\ decisions = {}
  /\ queue = (PriorJob :> 0)

\* the job after the admin UI's cancelJob completed before any worker loaded it:
\* the queue entry was removed and the hold is as cancelJob left it
InitCanceledByHelper(mode) ==
  /\ jobs = (PriorJob :> [JobRow(PriorReq(mode)) EXCEPT !.status = "canceled",
                                                        !.error_text = "canceled_by_admin",
                                                        !.finished = TRUE])
  /\ holds = (PriorJob :> [HoldRow(PriorReq(mode)) EXCEPT
                             !.status = IF "updated_at" \in HoldsColumns
                                        THEN "released" ELSE "held"])
  /\ idem = {IdemRow(PriorReq(mode), PriorJob)}
  /\ ledger = {}
  /\ decisions = {}
  /\ queue = << >>

\* the ledger of job j of tenant c after the stages of one run
RunLedger(c, j, source) ==
  logAEJ(logAEJ(logAEJ(logAEJ({}, c, j, "analyse", 1), c, j, "decision", 1),
                c, j, "generation", GenerationCost(source)), c, j, "application", 1)

\* the same job after a worker run that the backend answered
InitDone(mode) ==
  /\ ledger = RunLedger("t1", PriorJob, "openai")
  /\ jobs = (PriorJob :> [JobRow(PriorReq(mode)) EXCEPT
                            !.status = "done", !.progress = 100,
                            !.result = ResultPayload(SchemaRequired(mode), "openai", NULL),
                            !.aej_final = computeAEJTotal(ledger, "t1", PriorJob)])
  /\ holds = (PriorJob :> [HoldRow(PriorReq(mode)) EXCEPT !.status = "released"])
  /\ idem = {IdemRow(PriorReq(mode), PriorJob)}
  /\ decisions = logDecision(logDecision({}, "t1", PriorJob, "analysed"),
                             "t1", PriorJob, "modified")
  /\ queue = << >>

\* the same job after a worker run that threw at its third store statement on its
\* last attempt
InitError(mode) ==
  /\ ledger = logAEJ({}, "t1", PriorJob, "analyse", 1)
  /\ jobs = (PriorJob :> [JobRow(PriorReq(mode)) EXCEPT
                            !.status = "error", !.progress = 100,
                            !.error_text = "store_error"])
  /\ holds = (PriorJob :> [HoldRow(PriorReq(mode)) EXCEPT !.status = "released"])
  /\ idem = {IdemRow(PriorReq(mode), PriorJob)}
  /\ decisions = {}
  /\ queue = << >>

\* a job created before the holds table existed (the migration adds the table and the
\* reservation columns to an existing jobs table): it waits in the queue, has no hold
\* row and no token, and its estimate is the column default
InitNoHold(mode) ==
  /\ jobs = (PriorJob :> JobRow([PriorReq(mode) EXCEPT !.key = NoKey, !.est = 0]))
  /\ holds = << >>
  /\ idem = {}
  /\ ledger = {}
  /\ decisions = {}
  /\ queue = (PriorJob :> 0)

\* admission starts on an empty store, or after one earlier job of tenant t1
Init ==
  /\ \/ settings \in SettingsChoices /\ InitEmpty
     \/ /\ settings = [t1 |-> 20, t2 |-> 0]
        /\ \/ InitQueued("quick_boost")
           \/ InitDone("quick_boost")
           \/ InitError("quick_boost")
           \/ InitCanceled("quick_boost")
  /\ Quiet
  /\ flag = NULL

\* the worker's runs start with the job admitted, or admitted and then canceled; the
\* flag was never set, or it is on
InitWorker ==
  /\ settings = [t1 |-> 20, t2 |-> 0]
  /\ \E mode \in ALLOWED_MODES : InitQueued(mode) \/ InitCanceled(mode)
  /\ Quiet
  /\ flag \in {NULL, "1"}

(* ----------------- POST /v1/jobs/create, step by step ------------------ *)
\* validateCreatePayload, pickIdempotencyKey, the estimate
ReqStart(r) ==
  /\ rq[r].pc = "idle"
  /\ IF r = 1 THEN TRUE ELSE rq[r - 1].pc # "idle"
  /\ \E t \in Tenants, b \in Bodies, k \in IdemKeys \cup {NoKey} :
       rq' = [rq EXCEPT ![r] =
                IF ~validateCreatePayload(b)
                THEN Answer([IdleReq EXCEPT !.mode = b.mode, !.items = b.items,
                                            !.fieldsOk = b.fieldsOk], RespSchema)
                ELSE [IdleReq EXCEPT !.pc = "begin", !.tenant = t, !.mode = b.mode,
                                     !.items = b.items, !.key = k,
                                     !.est = AejEstimated(b.mode, b.items)]]
  /\ UNCHANGED <<jobs, holds, idem, queue, admFrame>>

\* BEGIN; the idempotency SELECT; on a hit COMMIT and answer with the recorded job
IdemCheck(r) ==
  /\ rq[r].pc = "begin"
  /\ LET q == rq[r]
         hit == IF q.key = NoKey THEN {} ELSE IdemLookup(idem, q.tenant, q.key)
     IN /\ rq' = [rq EXCEPT ![r] =
                 IF hit # {}
                 THEN Answer(q, RespOk((CHOOSE x \in hit : TRUE).job_id, 0, TRUE))
                 ELSE [q EXCEPT !.pc = "usage"]]
        /\ IF hit # {}
           THEN LogEvents("rq", r, (CHOOSE x \in hit : TRUE).job_id, {"idempotent_hit"})
           ELSE UNCHANGED evVars
  /\ UNCHANGED <<jobs, holds, idem, queue, admBase>>

\* SELECT plan_code, monthly_quota_aej; SELECT SUM(aej_used) of the month
ReadQuotaUsage(r) ==
  /\ rq[r].pc = "usage"
  /\ LET q == rq[r]
     IN rq' = [rq EXCEPT ![r] = [q EXCEPT !.pc = "holds",
                                          !.quota = QuotaOf(settings, q.tenant),
                                          !.consumed = ConsumedOf(ledger, q.tenant)]]
  /\ UNCHANGED <<jobs, holds, idem, queue, admFrame>>

\* faulty variant: the hold is written through the pool (outside the transaction) before
\* the quota test, so the ROLLBACK of a rejection does not remove it
ReadHoldsCheckReserveFirst(r) ==
  /\ rq[r].pc = "holds"
  /\ LET q == rq[r]
         held == HeldOf(holds, q.tenant)
     IN /\ rq' = [rq EXCEPT ![r] =
                    IF OverQuota(q.consumed, held, q.est, q.quota)
                    THEN Answer(q, RespQuota(q.quota, q.consumed, held, q.est))
                    ELSE [q EXCEPT !.pc = "insert", !.held = held]]
        /\ holds' = holds @@ (r :> HoldRow(q))
  /\ UNCHANGED <<jobs, idem, queue, admFrame>>

\* SELECT SUM(aej_estimated) of the held holds; the quota test; ROLLBACK and 402
ReadHoldsCheck(r) ==
  /\ rq[r].pc = "holds"
  /\ LET q == rq[r]
         held == HeldOf(holds, q.tenant)
     IN rq' = [rq EXCEPT ![r] =
                 IF OverQuota(q.consumed, held, q.est, q.quota)
                 THEN Answer(q, RespQuota(q.quota, q.consumed, held, q.est))
                 ELSE [q EXCEPT !.pc = "insert", !.held = held]]
  /\ UNCHANGED <<jobs, holds, idem, queue, admFrame>>

\* faulty variant: the job row is inserted through the pool, outside the transaction
InsertJobHoldAutocommit(r) ==
  /\ rq[r].pc = "insert"
  /\ \E fails \in BOOLEAN :
       rq' = [rq EXCEPT ![r] =
                IF fails THEN AnswerError(@, "store_error")
                ELSE [@ EXCEPT !.pc = IF rq[r].key = NoKey THEN "commit" ELSE "insidem"]]
  /\ jobs' = jobs @@ (r :> JobRow(rq[r]))
  /\ UNCHANGED <<holds, idem, queue, admFrame>>

\* faulty variant: the job is handed to the queue right after its INSERT, before COMMIT
InsertJobHoldEnqueueFirst(r) ==
  /\ rq[r].pc = "insert"
  /\ \E fails \in BOOLEAN :
       rq' = [rq EXCEPT ![r] =
                IF fails THEN AnswerError(@, "store_error")
                ELSE [@ EXCEPT !.pc = IF rq[r].key = NoKey THEN "commit" ELSE "insidem"]]
  /\ queue' = QueueAdd(queue, r)
  /\ UNCHANGED <<jobs, holds, idem, admFrame>>

\* INSERT INTO c360_jobs ... RETURNING id; INSERT INTO c360_aej_holds: both rows
\* stay private to the transaction; a failing statement throws: ROLLBACK and 500
InsertJobHold(r) ==
  /\ rq[r].pc = "insert"
  /\ \E fails \in BOOLEAN :
       rq' = [rq EXCEPT ![r] =
                IF fails THEN AnswerError(@, "store_error")
                ELSE [@ EXCEPT !.pc = IF rq[r].key = NoKey THEN "commit" ELSE "insidem"]]
  /\ UNCHANGED <<jobs, holds, idem, queue, admFrame>>

\* another transaction holds an uncommitted row with the same primary key
IdemInsertBlocked(r) ==
  \E o \in Reqs \ {r} :
    /\ rq[o].pc = "commit"
    /\ rq[o].tenant = rq[r].tenant
    /\ rq[o].key = rq[r].key

\* faulty variant: the idempotency row is inserted through the pool, outside the
\* transaction, and so is visible before the job row is committed
InsertIdemAutocommit(r) ==
  /\ rq[r].pc = "insidem"
  /\ ~IdemInsertBlocked(r)
  /\ IF IdemLookup(idem, rq[r].tenant, rq[r].key) # {}
     THEN /\ rq' = [rq EXCEPT ![r] = AnswerError(@, "duplicate_key")]
          /\ idem' = idem
     ELSE /\ rq' = [rq EXCEPT ![r] = [@ EXCEPT !.pc = "commit"]]
          /\ idem' = idem \cup {IdemRow(rq[r], r)}
  /\ UNCHANGED <<jobs, holds, queue, admFrame>>

\* INSERT INTO c360_idempotency: waits for a concurrent insert of the same key,
\* and fails on the primary key once that row is committed (ROLLBACK and 500)
InsertIdem(r) ==
  /\ rq[r].pc = "insidem"
  /\ ~IdemInsertBlocked(r)
  /\ rq' = [rq EXCEPT ![r] =
              IF IdemLookup(idem, @.tenant, @.key) # {}
              THEN AnswerError(@, "duplicate_key")
              ELSE [@ EXCEPT !.pc = "commit"]]
  /\ UNCHANGED <<jobs, holds, idem, queue, admFrame>>

\* COMMIT: the job row, the hold row and the idempotency row become visible
Commit(r) ==
  /\ rq[r].pc = "commit"
  /\ jobs' = jobs @@ (r :> JobRow(rq[r]))
  /\ holds' = holds @@ (r :> HoldRow(rq[r]))
  /\ idem' = IF rq[r].key = NoKey THEN idem ELSE idem \cup {IdemRow(rq[r], r)}
  /\ rq' = [rq EXCEPT ![r] = [@ EXCEPT !.pc = "enqueue"]]
  /\ UNCHANGED <<queue, admFrame>>

\* faulty variant: a failed enqueue marks the job as failed and releases its hold
EnqueueCompensate(r) ==
  /\ rq[r].pc = "enqueue"
  /\ \E fails \in BOOLEAN :
       IF fails
       THEN /\ rq' = [rq EXCEPT ![r] = AnswerError(@, "queue_error")]
            /\ jobs' = [jobs EXCEPT ![r].status = "error"]
            /\ holds' = [holds EXCEPT ![r].status = "released"]
            /\ UNCHANGED queue
       ELSE /\ rq' = [rq EXCEPT ![r] = Answer(@, RespOk(r, @.est, FALSE))]
            /\ queue' = QueueAdd(queue, r)
            /\ UNCHANGED <<jobs, holds>>
  /\ UNCHANGED <<idem, admFrame>>

\* queue.add("run", {job_id}) after the commit, then the 'created' event and the
\* answer; a failure of queue.add is caught: ROLLBACK (of nothing) and 500
Enqueue(r) ==
  /\ rq[r].pc = "enqueue"
  /\ \E fails \in BOOLEAN :
       IF fails
       THEN /\ rq' = [rq EXCEPT ![r] = AnswerError(@, "queue_error")]
            /\ UNCHANGED <<queue, evVars>>
       ELSE /\ rq' = [rq EXCEPT ![r] = Answer(@, RespOk(r, @.est, FALSE))]
            /\ queue' = QueueAdd(queue, r)
            /\ LogEvents("rq", r, r, {"created"})
  /\ UNCHANGED <<jobs, holds, idem, admBase>>

Admission(r) ==
  \/ ReqStart(r)
  \/ IdemCheck(r)
  \/ ReadQuotaUsage(r)
  \/ ReadHoldsCheck(r)
  \/ InsertJobHold(r)
  \/ InsertIdem(r)
  \/ Commit(r)
  \/ Enqueue(r)

(* ------------------------- dispatch queue ------------------------------ *)
QueueRemove(qu, j) == [k \in DOMAIN qu \ {j} |-> qu[k]]

\* the processor threw: the failure handler runs, and the queue retries the job
\* while attempts are left
Thrown(s, msg) == [IdleSlot EXCEPT !.pc = "fload", !.job = s.job, !.attempt = s.attempt,
                                   !.seen = s.seen, !.err = msg]

RetryQueue(qu, s) ==
  IF s.attempt < ATTEMPTS /\ s.job \notin DOMAIN qu THEN qu @@ (s.job :> s.attempt)
  ELSE qu

\* a waiting job id is handed to a free worker slot (the lowest one: slots are alike)
Deliver(w) ==
  /\ wk[w].pc = "idle"
  /\ \A v \in Slots : v < w => wk[v].pc # "idle"
  /\ \E j \in DOMAIN queue :
       /\ wk' = [wk EXCEPT ![w] = [IdleSlot EXCEPT !.pc = "load", !.job = j,
                                                   !.attempt = queue[j] + 1]]
       /\ queue' = QueueRemove(queue, j)
  /\ UNCHANGED <<jobs, holds, ledger, decisions, faults, redeliveries, wrkFrame, admVars>>

\* at-least-once delivery: a job id that was delivered is put back in the queue
Redeliver(j) ==
  /\ redeliveries < MaxRedeliveries
  /\ j \in DOMAIN jobs
  /\ j \notin DOMAIN queue
  /\ \/ \E w \in Slots : wk[w].pc # "idle" /\ wk[w].job = j
     \/ jobs[j].status # "queued"
  /\ queue' = queue @@ (j :> 0)
  /\ redeliveries' = redeliveries + 1
  /\ UNCHANGED <<jobs, holds, ledger, decisions, wk, faults, wrkFrame, admVars>>

(* ----------------------- worker processor, step by step ---------------- *)
\* getJob; the done and canceled checks
WLoad(w) ==
  /\ wk[w].pc = "load"
  /\ LET s == wk[w]
         j == s.job
     IN IF j \notin DOMAIN jobs
        THEN /\ wk' = [wk EXCEPT ![w] = Thrown(s, "job_not_found")]
             /\ queue' = RetryQueue(queue, s)
        ELSE /\ wk' = [wk EXCEPT ![w] =
                         IF jobs[j].status = "done" THEN IdleSlot
                         ELSE [s EXCEPT !.pc = IF jobs[j].status = "canceled"
                                               THEN "relc" ELSE "run",
                                        !.client_id = jobs[j].client_id,
                                        !.seen = IF jobs[j].status = "canceled"
                                                 THEN "canceled" ELSE "live",
                                        !.mode = jobs[j].request_json.mode]]
             /\ UNCHANGED queue
  /\ UNCHANGED <<jobs, holds, ledger, decisions, faults, redeliveries, wrkFrame, admVars>>

\* the job was canceled before execution: releaseHold and return
WReleaseCanceled(w) ==
  /\ wk[w].pc = "relc"
  /\ holds' = releaseHold(holds, wk[w].client_id, wk[w].job)
  /\ wk' = [wk EXCEPT ![w] = IdleSlot]
  /\ UNCHANGED <<jobs, ledger, decisions, queue, faults, redeliveries, wrkFrame, admVars>>

\* setJob running/10; the 'running' event; the request payload check; normalizeMode
WRunning(w) ==
  /\ wk[w].pc = "run"
  /\ LET s == wk[w]
     IN /\ jobs' = setJob(jobs, s.job, [status |-> "running", progress |-> 10])
        /\ IF s.mode = NULL
           THEN /\ wk' = [wk EXCEPT ![w] = Thrown(s, "missing_request_json")]
                /\ queue' = RetryQueue(queue, s)
           ELSE /\ wk' = [wk EXCEPT ![w] = [s EXCEPT !.pc = "analyse",
                                                     !.mode = normalizeMode(s.mode)]]
                /\ UNCHANGED queue
        /\ LogEvents("wk", w, s.job, {"running"})
  /\ UNCHANGED <<holds, ledger, decisions, faults, redeliveries, wrkBase, admVars>>

\* logAEJ analyse
WAnalyse(w) ==
  /\ wk[w].pc = "analyse"
  /\ ~Blocked("wk", w)
  /\ ledger' = logAEJ(ledger, wk[w].client_id, wk[w].job, "analyse", 1)
  /\ wk' = [wk EXCEPT ![w].pc = "dec1"]
  /\ UNCHANGED <<jobs, holds, decisions, queue, faults, redeliveries, wrkFrame, admVars>>

\* logDecision analysed
WDecisionAnalysed(w) ==
  /\ wk[w].pc = "dec1"
  /\ decisions' = logDecision(decisions, wk[w].client_id, wk[w].job, "analysed")
  /\ wk' = [wk EXCEPT ![w].pc = "decision"]
  /\ UNCHANGED <<jobs, holds, ledger, queue, faults, redeliveries, wrkFrame, admVars>>

\* logAEJ decision
WDecision(w) ==
  /\ wk[w].pc = "decision"
  /\ ledger' = logAEJ(ledger, wk[w].client_id, wk[w].job, "decision", 1)
  /\ wk' = [wk EXCEPT ![w].pc = "p30"]
  /\ UNCHANGED <<jobs, holds, decisions, queue, faults, redeliveries, wrkFrame, admVars>>

\* setJob progress 30; then isForceDegraded up to its await: Date.now() and the
\* test of the cached value
WProgress(w) ==
  /\ wk[w].pc = "p30"
  /\ jobs' = setJob(jobs, wk[w].job, [progress |-> 30])
  /\ wk' = [wk EXCEPT ![w].pc = "gen", ![w].now = clock,
                      ![w].forced = CachedForced(cachedDegraded, clock)]
  /\ UNCHANGED <<holds, ledger, decisions, queue, faults, redeliveries, wrkFrame, admVars>>

\* isForceDegraded after its await, for an execution s standing at the generation
\* step: on a miss the flag read from the store now, else the cached answer
IsForced(s) == IF s.forced = "miss" THEN flag = "1" ELSE s.forced = "yes"

\* cachedDegraded = { v, at: now } on a miss, with the time taken before the read
RefreshedCache(s) ==
  IF s.forced = "miss" THEN [v |-> flag, at |-> s.now] ELSE cachedDegraded

\* what the generation step can end with
GenerationOutcomes(s) ==
  IF IsForced(s) THEN {"force_degraded"} ELSE {"ok"} \cup (BackendErrors \ {"force_degraded"})

\* the events of the generation step: 'openai_call' before callOpenAI (not reached
\* when the flag forces the fallback or the mode has no prompt), 'openai_ok' after it
GenerationEvents(mode, out) ==
  IF mode \notin ALLOWED_MODES \/ out = "force_degraded" THEN {}
  ELSE IF out = "ok" THEN {"openai_call", "openai_ok"}
  ELSE {"openai_call"}

\* faulty variant: the generation step has no try/catch, a backend failure is thrown
WGenerateUncaught(w) ==
  /\ wk[w].pc = "gen"
  /\ cachedDegraded' = RefreshedCache(wk[w])
  /\ \E out \in GenerationOutcomes(wk[w]) :
       /\ IF out = "ok" /\ wk[w].mode \in ALLOWED_MODES
          THEN /\ wk' = [wk EXCEPT ![w] = [@ EXCEPT !.pc = "genlog", !.source = "openai",
                                                      !.llm_error = NULL]]
               /\ UNCHANGED queue
          ELSE /\ wk' = [wk EXCEPT ![w] = Thrown(@, out)]
               /\ queue' = RetryQueue(queue, wk[w])
       /\ LogEvents("wk", w, wk[w].job, GenerationEvents(wk[w].mode, out))
  /\ UNCHANGED <<jobs, holds, ledger, decisions, faults, redeliveries, genFrame,
                 admVars>>

\* the rest of isForceDegraded, pickPromptAndSchema, callOpenAI inside try/catch:
\* the flag forces the fallback, or the backend answers, or the call fails; the
\* message of a failure is kept as llm_error
WGenerate(w) ==
  /\ wk[w].pc = "gen"
  /\ cachedDegraded' = RefreshedCache(wk[w])
  /\ \E out \in GenerationOutcomes(wk[w]) :
       /\ wk' = [wk EXCEPT ![w] =
                   IF out = "ok" /\ wk[w].mode \in ALLOWED_MODES
                   THEN [@ EXCEPT !.pc = "genlog", !.source = "openai", !.llm_error = NULL]
                   ELSE [@ EXCEPT !.pc = "genlog", !.source = "deterministic",
                                  !.llm_error = IF out = "ok" THEN "Unsupported mode"
                                                ELSE out]]
       /\ LogEvents("wk", w, wk[w].job, GenerationEvents(wk[w].mode, out))
  /\ UNCHANGED <<jobs, holds, ledger, decisions, queue, faults, redeliveries, genFrame,
                 admVars>>

\* logAEJ generation
WGenerationLog(w) ==
  /\ wk[w].pc = "genlog"
  /\ ~Blocked("wk", w)
  /\ ledger' = logAEJ(ledger, wk[w].client_id, wk[w].job, "generation",
                      GenerationCost(wk[w].source))
  /\ wk' = [wk EXCEPT ![w].pc = "done"]
  /\ UNCHANGED <<jobs, holds, decisions, queue, faults, redeliveries, wrkFrame, admVars>>

\* the fallback and its event when the backend gave nothing; setJob done/100 with
\* the result; the 'done' event
WDone(w) ==
  /\ wk[w].pc = "done"
  /\ LET s == wk[w]
         exec == IF s.source = "openai" THEN SchemaRequired(s.mode)
                 ELSE buildDeterministicFallback(s.mode)
     IN /\ jobs' = setJob(jobs, s.job,
                          [status |-> "done", progress |-> 100,
                           result |-> ResultPayload(exec, s.source, s.llm_error)])
        /\ LogEvents("wk", w, s.job,
                     IF s.source = "openai" THEN {"done"} ELSE {"fallback", "done"})
  /\ wk' = [wk EXCEPT ![w].pc = "dec2"]
  /\ UNCHANGED <<holds, ledger, decisions, queue, faults, redeliveries, wrkBase, admVars>>

\* logDecision modified
WDecisionModified(w) ==
  /\ wk[w].pc = "dec2"
  /\ ~Blocked("wk", w)
  /\ decisions' = logDecision(decisions, wk[w].client_id, wk[w].job, "modified")
  /\ wk' = [wk EXCEPT ![w].pc = "app"]
  /\ UNCHANGED <<jobs, holds, ledger, queue, faults, redeliveries, wrkFrame, admVars>>

\* logAEJ application
WApplication(w) ==
  /\ wk[w].pc = "app"
  /\ ledger' = logAEJ(ledger, wk[w].client_id, wk[w].job, "application", 1)
  /\ wk' = [wk EXCEPT ![w].pc = "total"]
  /\ UNCHANGED <<jobs, holds, decisions, queue, faults, redeliveries, wrkFrame, admVars>>

\* faulty variant: the final cost is taken from the job's estimate
WTotalEstimated(w) ==
  /\ wk[w].pc = "total"
  /\ wk' = [wk EXCEPT ![w].pc = "final",
                      ![w].total = IF wk[w].job \in DOMAIN jobs
                                   THEN jobs[wk[w].job].aej_estimated ELSE 0]
  /\ UNCHANGED <<jobs, holds, ledger, decisions, queue, faults, redeliveries, wrkFrame, admVars>>

\* computeAEJTotal
WTotal(w) ==
  /\ wk[w].pc = "total"
  /\ wk' = [wk EXCEPT ![w].pc = "final",
                      ![w].total = computeAEJTotal(ledger, wk[w].client_id, wk[w].job)]
  /\ UNCHANGED <<jobs, holds, ledger, decisions, queue, faults, redeliveries, wrkFrame, admVars>>

\* setJob aej_final
WFinal(w) ==
  /\ wk[w].pc = "final"
  /\ jobs' = setJob(jobs, wk[w].job, [aej_final |-> wk[w].total])
  /\ wk' = [wk EXCEPT ![w].pc = "release"]
  /\ UNCHANGED <<holds, ledger, decisions, queue, faults, redeliveries, wrkFrame, admVars>>

\* faulty variant: the execution leaves the hold of a job it finds canceled to the
\* cancel request
WReleaseUnlessCanceled(w) ==
  /\ wk[w].pc = "release"
  /\ holds' = IF wk[w].job \in DOMAIN jobs /\ jobs[wk[w].job].status = "canceled"
              THEN holds
              ELSE releaseHold(holds, wk[w].client_id, wk[w].job)
  /\ wk' = [wk EXCEPT ![w] = IdleSlot]
  /\ UNCHANGED <<jobs, ledger, decisions, queue, faults, redeliveries, wrkFrame, admVars>>

\* releaseHold and return
WRelease(w) ==
  /\ wk[w].pc = "release"
  /\ holds' = releaseHold(holds, wk[w].client_id, wk[w].job)
  /\ wk' = [wk EXCEPT ![w] = IdleSlot]
  /\ UNCHANGED <<jobs, ledger, decisions, queue, faults, redeliveries, wrkFrame, admVars>>

\* a store statement of the processor outside the try/catch fails: the processor
\* throws (store statements of the failure handler are taken to succeed)
StorePcs == {"load", "relc", "run", "analyse", "dec1", "decision", "p30", "genlog",
             "done", "dec2", "app", "total", "final", "release"}

WStoreFault(w) ==
  /\ wk[w].pc \in StorePcs
  /\ ~Blocked("wk", w)
  /\ faults < MaxFaults
  /\ faults' = faults + 1
  /\ wk' = [wk EXCEPT ![w] = Thrown(@, "store_error")]
  /\ queue' = RetryQueue(queue, wk[w])
  /\ UNCHANGED <<jobs, holds, ledger, decisions, redeliveries, wrkFrame, admVars>>

(* ------------------------- worker.on("failed") ------------------------- *)
\* getJob
FLoad(w) ==
  /\ wk[w].pc = "fload"
  /\ wk' = [wk EXCEPT ![w] =
              IF wk[w].job \notin DOMAIN jobs THEN IdleSlot
              ELSE [@ EXCEPT !.pc = "fset", !.client_id = jobs[wk[w].job].client_id]]
  /\ UNCHANGED <<jobs, holds, ledger, decisions, queue, faults, redeliveries, wrkFrame, admVars>>

\* setJob error/100 with the message; the 'error' event
FSetError(w) ==
  /\ wk[w].pc = "fset"
  /\ jobs' = setJob(jobs, wk[w].job,
                    [status |-> "error", progress |-> 100, error_text |-> wk[w].err])
  /\ LogEvents("wk", w, wk[w].job, {"error"})
  /\ wk' = [wk EXCEPT ![w].pc = "frel"]
  /\ UNCHANGED <<holds, ledger, decisions, queue, faults, redeliveries, wrkBase, admVars>>

\* faulty variant: the failure handler forgets the hold
FReleaseNothing(w) ==
  /\ wk[w].pc = "frel"
  /\ ~Blocked("wk", w)
  /\ wk' = [wk EXCEPT ![w] = IdleSlot]
  /\ UNCHANGED <<jobs, holds, ledger, decisions, queue, faults, redeliveries, wrkFrame,
                 admVars>>

\* releaseHold
FRelease(w) ==
  /\ wk[w].pc = "frel"
  /\ ~Blocked("wk", w)
  /\ holds' = releaseHold(holds, wk[w].client_id, wk[w].job)
  /\ wk' = [wk EXCEPT ![w] = IdleSlot]
  /\ UNCHANGED <<jobs, ledger, decisions, queue, faults, redeliveries, wrkFrame, admVars>>

Processor(w) ==
  \/ WLoad(w)
  \/ WReleaseCanceled(w)
  \/ WRunning(w)
  \/ WAnalyse(w)
  \/ WDecisionAnalysed(w)
  \/ WDecision(w)
  \/ WProgress(w)
  \/ WGenerate(w)
  \/ WGenerationLog(w)
  \/ WDone(w)
  \/ WDecisionModified(w)
  \/ WApplication(w)
  \/ WTotal(w)
  \/ WFinal(w)
  \/ WRelease(w)
  \/ WStoreFault(w)
  \/ FLoad(w)
  \/ FSetError(w)
  \/ FRelease(w)

\* the worker pool: deliveries and the steps of the executions
NextPool == \E w \in Slots : Deliver(w) \/ Processor(w)

NextWorker ==
  \/ NextPool
  \/ \E j \in JobIds : Redeliver(j)

(* ---------------- POST /v1/admin/jobs/:id/cancel, step by step ---------- *)
\* SELECT id, status, client_id; 404 when there is no row, already_final when the
\* status read is done or error
CancelStart(j) ==
  /\ adm.pc = "idle"
  /\ adminOps < MaxAdminOps
  /\ IF j \in DOMAIN jobs /\ jobs[j].status \notin {"done", "error"}
     THEN /\ adm' = [pc |-> "cset", job |-> j, st |-> jobs[j].status]
          /\ adminOps' = adminOps + 1
     ELSE UNCHANGED <<adm, adminOps>>
  /\ UNCHANGED <<jobs, holds, ledger, decisions, queue, wk, faults, redeliveries, wrkFrame>>

\* UPDATE c360_jobs SET status='canceled', error_text=COALESCE(error_text,'')
CancelSet ==
  /\ adm.pc = "cset"
  /\ jobs' = setJob(jobs, adm.job,
                    [status |-> "canceled",
                     error_text |-> IF jobs[adm.job].error_text = NULL THEN ""
                                    ELSE jobs[adm.job].error_text])
  /\ adm' = [adm EXCEPT !.pc = "cdeq"]
  /\ UNCHANGED <<holds, ledger, decisions, queue, wk, faults, redeliveries, adminOps,
                 wrkFrame>>

\* queue.getJob(jobId) and remove, when the entry is still waiting
CancelDequeue ==
  /\ adm.pc = "cdeq"
  /\ queue' = QueueRemove(queue, adm.job)
  /\ adm' = [adm EXCEPT !.pc = "crel"]
  /\ UNCHANGED <<jobs, holds, ledger, decisions, wk, faults, redeliveries, adminOps,
                 wrkFrame>>

\* UPDATE c360_aej_holds SET status='released' WHERE job_id=$1 AND status='held'
CancelRelease ==
  /\ adm.pc = "crel"
  /\ holds' = IF adm.job \in DOMAIN holds /\ holds[adm.job].status = "held"
              THEN [holds EXCEPT ![adm.job].status = "released"]
              ELSE holds
  /\ adm' = IdleAdmin
  /\ LogEvents("adm", 0, adm.job, {"canceled"})
  /\ UNCHANGED <<jobs, ledger, decisions, queue, wk, faults, redeliveries, adminOps,
                 wrkBase>>

NextAdmin ==
  \/ \E j \in JobIds : CancelStart(j)
  \/ CancelSet
  \/ CancelDequeue
  \/ CancelRelease


(* ------------------- cancelJob (admin UI), step by step ---------------- *)
\* SELECT id, status, client_id; job_not_found is thrown when there is no row
HCancelStart(j) ==
  /\ adm.pc = "idle"
  /\ adminOps < MaxAdminOps
  /\ IF j \in DOMAIN jobs
     THEN /\ adm' = [pc |-> "hset", job |-> j, st |-> jobs[j].status]
          /\ adminOps' = adminOps + 1
     ELSE UNCHANGED <<adm, adminOps>>
  /\ UNCHANGED <<jobs, holds, ledger, decisions, queue, wk, faults, redeliveries, wrkFrame>>

\* UPDATE c360_jobs SET status='canceled',
\*   error_text=COALESCE(error_text,'canceled_by_admin'), finished_at=NOW()
\*   WHERE id=$1 AND status NOT IN ('done','error','canceled')
HCancelSet ==
  /\ adm.pc = "hset"
  /\ jobs' = IF jobs[adm.job].status \in Terminal THEN jobs
             ELSE setJob(jobs, adm.job,
                         [status |-> "canceled",
                          error_text |-> IF jobs[adm.job].error_text = NULL
                                         THEN "canceled_by_admin"
                                         ELSE jobs[adm.job].error_text,
                          finished |-> TRUE])
  /\ adm' = [adm EXCEPT !.pc = "hdeq"]
  /\ UNCHANGED <<holds, ledger, decisions, queue, wk, faults, redeliveries, adminOps,
                 wrkFrame>>

\* queue.getJob(jobId) and remove, when the entry is still waiting
HCancelDequeue ==
  /\ adm.pc = "hdeq"
  /\ queue' = QueueRemove(queue, adm.job)
  /\ adm' = [adm EXCEPT !.pc = "hrel"]
  /\ UNCHANGED <<jobs, holds, ledger, decisions, wk, faults, redeliveries, adminOps,
                 wrkFrame>>

\* UPDATE c360_aej_holds SET status='released', updated_at=NOW()
\*   WHERE job_id=$1 AND status='held', inside try/catch: the statement fails when
\* the table has no such column, and the failure is swallowed
HCancelRelease ==
  /\ adm.pc = "hrel"
  /\ holds' = IF /\ "updated_at" \in HoldsColumns
                 /\ adm.job \in DOMAIN holds
                 /\ holds[adm.job].status = "held"
              THEN [holds EXCEPT ![adm.job].status = "released"]
              ELSE holds
  /\ adm' = IdleAdmin
  /\ LogEvents("adm", 0, adm.job, {"canceled"})
  /\ UNCHANGED <<jobs, ledger, decisions, queue, wk, faults, redeliveries, adminOps,
                 wrkBase>>

NextCancel ==
  \/ \E j \in JobIds : CancelStart(j) \/ HCancelStart(j)
  \/ CancelSet
  \/ CancelDequeue
  \/ CancelRelease
  \/ HCancelSet
  \/ HCancelDequeue
  \/ HCancelRelease

(* ---------------- POST /v1/admin/jobs/:id/retry, step by step ----------- *)
\* queue.add("run", {job_id}, {jobId, attempts: 3, ...}) by a retry: the queue
\* ignores an add whose jobId it still knows, and it keeps the entries of completed
\* and failed jobs (removeOnComplete: 1000, removeOnFail: 2000) until they are
\* trimmed; the entry of a job that ended is either still kept or already trimmed
RetryAdd(qu, j, st, kept) ==
  IF kept /\ st \in {"done", "error"} THEN qu ELSE QueueAdd(qu, j)

\* SELECT id, client_id; 404 when there is no row (st: the row's status then)
RetryStart(j) ==
  /\ adm.pc = "idle"
  /\ adminOps < MaxAdminOps
  /\ IF j \in DOMAIN jobs
     THEN /\ adm' = [pc |-> "rset", job |-> j, st |-> jobs[j].status]
          /\ adminOps' = adminOps + 1
     ELSE UNCHANGED <<adm, adminOps>>
  /\ UNCHANGED <<jobs, holds, ledger, decisions, queue, wk, faults, redeliveries, wrkFrame>>

\* UPDATE c360_jobs SET status='queued', progress=0, error_text=NULL,
\*   result_json=NULL WHERE id=$1
RetrySet ==
  /\ adm.pc = "rset"
  /\ jobs' = setJob(jobs, adm.job, [status |-> "queued", progress |-> 0,
                                    error_text |-> NULL, result |-> NullResult])
  /\ adm' = [adm EXCEPT !.pc = "rhold"]
  /\ UNCHANGED <<holds, ledger, decisions, queue, wk, faults, redeliveries, adminOps,
                 wrkFrame>>

\* INSERT INTO c360_aej_holds ... SELECT $1, client_id, COALESCE(aej_estimated,1),
\*   'held' FROM c360_jobs WHERE id=$1 ON CONFLICT DO NOTHING
RetryHold ==
  /\ adm.pc = "rhold"
  /\ holds' = IF adm.job \in DOMAIN holds \/ adm.job \notin DOMAIN jobs THEN holds
              ELSE holds @@ (adm.job :> [client_id |-> jobs[adm.job].client_id,
                                         aej_estimated |-> jobs[adm.job].aej_estimated,
                                         status |-> "held"])
  /\ adm' = [adm EXCEPT !.pc = "radd"]
  /\ UNCHANGED <<jobs, ledger, decisions, queue, wk, faults, redeliveries, adminOps,
                 wrkFrame>>

\* queue.add and the response
RetryEnqueue ==
  /\ adm.pc = "radd"
  /\ \E kept \in BOOLEAN : queue' = RetryAdd(queue, adm.job, adm.st, kept)
  /\ adm' = IdleAdmin
  /\ LogEvents("adm", 0, adm.job, {"retry"})
  /\ UNCHANGED <<jobs, holds, ledger, decisions, wk, faults, redeliveries, adminOps,
                 wrkBase>>

(* ------------------- retryJob (admin UI), step by step ----------------- *)
\* SELECT id, client_id; job_not_found is thrown when there is no row
URetryStart(j) ==
  /\ adm.pc = "idle"
  /\ adminOps < MaxAdminOps
  /\ IF j \in DOMAIN jobs
     THEN /\ adm' = [pc |-> "uset", job |-> j, st |-> jobs[j].status]
          /\ adminOps' = adminOps + 1
     ELSE UNCHANGED <<adm, adminOps>>
  /\ UNCHANGED <<jobs, holds, ledger, decisions, queue, wk, faults, redeliveries, wrkFrame>>

\* UPDATE c360_jobs SET status='queued', progress=0, error_text=NULL,
\*   result_json=NULL, finished_at=NULL WHERE id=$1
URetrySet ==
  /\ adm.pc = "uset"
  /\ jobs' = setJob(jobs, adm.job, [status |-> "queued", progress |-> 0,
                                    error_text |-> NULL, result |-> NullResult,
                                    finished |-> FALSE])
  /\ adm' = [adm EXCEPT !.pc = "uadd"]
  /\ UNCHANGED <<holds, ledger, decisions, queue, wk, faults, redeliveries, adminOps,
                 wrkFrame>>

\* queue.add and the return
URetryEnqueue ==
  /\ adm.pc = "uadd"
  /\ \E kept \in BOOLEAN : queue' = RetryAdd(queue, adm.job, adm.st, kept)
  /\ adm' = IdleAdmin
  /\ LogEvents("adm", 0, adm.job, {"retry"})
  /\ UNCHANGED <<jobs, holds, ledger, decisions, wk, faults, redeliveries, adminOps,
                 wrkBase>>

\* the steps that carry a retry on once it has started
RetrySteps ==
  \/ RetrySet
  \/ RetryHold
  \/ RetryEnqueue
  \/ URetrySet
  \/ URetryEnqueue

NextRetry ==
  \/ \E j \in JobIds : RetryStart(j) \/ URetryStart(j)
  \/ RetrySteps

\* the steps of an execution that meets no store failure
RunSteps(w) ==
  \/ WLoad(w)
  \/ WReleaseCanceled(w)
  \/ WRunning(w)
  \/ WAnalyse(w)
  \/ WDecisionAnalysed(w)
  \/ WDecision(w)
  \/ WProgress(w)
  \/ WGenerate(w)
  \/ WGenerationLog(w)
  \/ WDone(w)
  \/ WDecisionModified(w)
  \/ WApplication(w)
  \/ WTotal(w)
  \/ WFinal(w)
  \/ WRelease(w)

NextRun == \E w \in Slots : Deliver(w) \/ RunSteps(w)

NextAdmit == \E r \in Reqs : Admission(r)

SpecAdmit == Init /\ [][NextAdmit]_vars

\* the worker pool and the queue, from an admitted job
SpecWorker == InitWorker /\ [][NextWorker]_vars

\* an admitted job, the worker pool and one administrative cancel
InitCancel ==
  /\ settings = [t1 |-> 20, t2 |-> 0]
  /\ InitQueued("quick_boost")
  /\ Quiet
  /\ flag = NULL

SpecCancel == InitCancel /\ [][NextPool \/ NextCancel]_vars

\* a job that ended, the worker pool and one administrative retry
InitRetry ==
  /\ settings = [t1 |-> 20, t2 |-> 0]
  /\ \E mode \in ALLOWED_MODES :
       \/ InitDone(mode)
       \/ InitError(mode)
       \/ InitCanceled(mode)
       \/ InitCanceledByHelper(mode)
  /\ Quiet
  /\ flag = NULL

SpecRetry == InitRetry /\ [][NextRun \/ NextRetry]_vars

\* the same with a fair queue, fair workers and a retry that is carried through
SpecRetryFair == SpecRetry /\ WF_vars(NextRun) /\ WF_vars(RetrySteps)

\* a waiting job with or without a hold row, the worker pool and one administrative
\* cancel or retry
InitHold ==
  /\ settings = [t1 |-> 20, t2 |-> 0]
  /\ InitQueued("quick_boost") \/ InitNoHold("quick_boost")
  /\ Quiet
  /\ flag = NULL

SpecHold == InitHold /\ [][NextPool \/ NextCancel \/ NextRetry]_vars

\* the request that admitted the job present before the run, once answered
AnsweredReq(mode) ==
  Answer(PriorReq(mode), RespOk(PriorJob, PriorReq(mode).est, FALSE))

\* event-log writes may fail while: the worker pool runs a waiting job and a store
\* statement may fail; or the pool runs it and an administrative cancel or retry
\* arrives; or a request is admitted after an earlier job has ended
InitEvents ==
  /\ settings = [t1 |-> 20, t2 |-> 0]
  /\ wk = [w \in Slots |-> IdleSlot]
  /\ adm = IdleAdmin
  /\ redeliveries = 0
  /\ events = {}
  /\ pend = {}
  /\ evFaults = 0
  /\ flag = NULL
  /\ flagSince = 0
  /\ flagOps = 0
  /\ clock = TickMs
  /\ cachedDegraded = [v |-> NULL, at |-> 0]
  /\ qr = NoQuery
  /\ \/ /\ InitQueued("quick_boost")
        /\ rq = [r \in Reqs |-> AnsweredReq("quick_boost")]
        /\ faults = 0
        /\ adminOps = MaxAdminOps
     \/ /\ InitQueued("quick_boost")
        /\ rq = [r \in Reqs |-> AnsweredReq("quick_boost")]
        /\ faults = MaxFaults
        /\ adminOps = 0
     \/ /\ InitDone("quick_boost")
        /\ rq = [r \in Reqs |-> IF r = 1 THEN AnsweredReq("quick_boost") ELSE IdleReq]
        /\ faults = MaxFaults
        /\ adminOps = MaxAdminOps

NextEvent == \E e \in pend : WriteEvent(e)

SpecEvents ==
  InitEvents /\ [][NextAdmit \/ NextPool \/ NextCancel \/ NextRetry \/ NextEvent]_vars

(* ------------- POST /v1/admin/openai/degraded and the clock ------------ *)
\* the job id the flag endpoint logs its event under (the literal 'admin')
AdminEventJob == 0 - 2

\* setAdminFlag("force_degraded", enabled ? "1" : "0"), then the 'flag' event
SetFlag(enabled) ==
  /\ flagOps < MaxFlagOps
  /\ flagOps' = flagOps + 1
  /\ flag' = IF enabled THEN "1" ELSE "0"
  /\ flagSince' = IF (flag = "1") = enabled THEN flagSince ELSE clock
  /\ LogEvents("adm", 0, AdminEventJob, {"flag"})
  /\ UNCHANGED <<settings, jobs, holds, idem, ledger, decisions, queue, rq, wk, faults,
                 redeliveries, adm, adminOps, clock, cachedDegraded, qr>>

\* time passes
Tick ==
  /\ clock < MaxClock
  /\ clock' = clock + TickMs
  /\ UNCHANGED <<settings, jobs, holds, idem, ledger, decisions, queue, rq, wk, faults,
                 redeliveries, adm, adminOps, evVars, flag, flagSince, flagOps,
                 cachedDegraded, qr>>

\* a waiting or canceled job, a duplicate delivery, a flag that is toggled and time
\* passing
InitDegraded ==
  /\ settings = [t1 |-> 20, t2 |-> 0]
  /\ InitQueued("quick_boost") \/ InitCanceled("quick_boost")
  /\ Quiet
  /\ flag \in {NULL, "1"}

NextDegraded ==
  \/ NextRun
  \/ \E j \in JobIds : Redeliver(j)
  \/ \E enabled \in BOOLEAN : SetFlag(enabled)
  \/ Tick

SpecDegraded == InitDegraded /\ [][NextDegraded]_vars

(* ------------------- an execution that is interrupted ------------------ *)
\* the worker process stops while an execution is in progress: the rest of the
\* processor does not run, no 'failed' handler runs, and the queue, which delivers
\* at least once, hands the job id out again
WInterrupt(w) ==
  /\ wk[w].pc # "idle"
  /\ redeliveries < MaxRedeliveries
  /\ redeliveries' = redeliveries + 1
  /\ wk' = [wk EXCEPT ![w] = IdleSlot]
  /\ queue' = QueueAdd(queue, wk[w].job)
  /\ UNCHANGED <<jobs, holds, ledger, decisions, faults, wrkFrame, admVars>>

\* a waiting or canceled job, executions without store failures, one interruption
InitInterrupt ==
  /\ settings = [t1 |-> 20, t2 |-> 0]
  /\ \E mode \in ALLOWED_MODES : InitQueued(mode) \/ InitCanceled(mode)
  /\ Quiet
  /\ flag = NULL

NextInterrupt ==
  \/ NextRun
  \/ \E w \in Slots : WInterrupt(w)

SpecInterrupt == InitInterrupt /\ [][NextInterrupt]_vars

(* ------------- runs, duplicate deliveries and retries together --------- *)
\* the worker pool with store failures, duplicate deliveries and administrative
\* retries: a waiting or canceled job meets store failures and a duplicate delivery,
\* a waiting job meets store failures and a retry, and a job that ended in done or
\* in error meets a retry and a duplicate delivery
InitSettle ==
  /\ settings = [t1 |-> 20, t2 |-> 0]
  /\ rq = [r \in Reqs |-> IdleReq]
  /\ wk = [w \in Slots |-> IdleSlot]
  /\ adm = IdleAdmin
  /\ events = {}
  /\ pend = {}
  /\ evFaults = MaxEventFaults
  /\ flag = NULL
  /\ flagSince = 0
  /\ flagOps = 0
  /\ clock = TickMs
  /\ cachedDegraded = [v |-> NULL, at |-> 0]
  /\ qr = NoQuery
  /\ \/ /\ InitQueued("quick_boost") \/ InitCanceled("quick_boost")
        /\ faults = 0
        /\ redeliveries = 0
        /\ adminOps = MaxAdminOps
     \/ /\ InitQueued("quick_boost")
        /\ faults = 0
        /\ redeliveries = MaxRedeliveries
        /\ adminOps = 0
     \/ /\ InitDone("quick_boost") \/ InitError("quick_boost")
        /\ faults = MaxFaults
        /\ redeliveries = 0
        /\ adminOps = 0

SpecSettle == InitSettle /\ [][NextWorker \/ NextRetry]_vars

(* ------------------------- fair worker scheduling ---------------------- *)
\* the steps a scheduled execution takes by itself: deliveries, the processor's
\* statements (the backend call among them, which returns or fails) and the
\* failure handler's
FairSteps ==
  \E w \in Slots :
    Deliver(w) \/ RunSteps(w) \/ FLoad(w) \/ FSetError(w) \/ FRelease(w)

\* a store statement of the failure handler fails: the handler's catch logs the
\* error and the handler ends, whatever it had not done yet is left undone
FStoreFault(w) ==
  /\ wk[w].pc \in {"fload", "fset", "frel"}
  /\ ~Blocked("wk", w)
  /\ faults < MaxFaults + MaxHandlerFaults
  /\ faults' = faults + 1
  /\ wk' = [wk EXCEPT ![w] = IdleSlot]
  /\ UNCHANGED <<jobs, holds, ledger, decisions, queue, redeliveries, wrkFrame, admVars>>

\* an admitted job waits in the queue, or was canceled before any worker loaded it
InitFair ==
  /\ settings = [t1 |-> 20, t2 |-> 0]
  /\ InitQueued("quick_boost") \/ InitCanceled("quick_boost")
  /\ Quiet
  /\ flag = NULL

NextFair ==
  \/ NextWorker
  \/ \E w \in Slots : FStoreFault(w)

SpecFair == InitFair /\ [][NextFair]_vars /\ WF_vars(FairSteps)

(* ------------- one admission at a time beside the worker pool ---------- *)
\* the job of an answered request waits or was canceled; one more request arrives and
\* is handled alone (admissions do not overlap) while the worker pool runs without
\* store failures
InitSerial ==
  /\ settings = [t1 |-> 20, t2 |-> 0]
  /\ InitQueued("quick_boost") \/ InitCanceled("quick_boost")
  /\ rq = [r \in Reqs |-> IF r = 1 THEN AnsweredReq("quick_boost") ELSE IdleReq]
  /\ wk = [w \in Slots |-> IdleSlot]
  /\ adm = IdleAdmin
  /\ faults = 0
  /\ redeliveries = 0
  /\ adminOps = 0
  /\ events = {}
  /\ pend = {}
  /\ evFaults = MaxEventFaults
  /\ flag = NULL
  /\ flagSince = 0
  /\ flagOps = 0
  /\ clock = TickMs
  /\ cachedDegraded = [v |-> NULL, at |-> 0]
  /\ qr = NoQuery

SpecSerial == InitSerial /\ [][NextAdmit \/ NextRun]_vars

(* ------------- a request repeated after a failed enqueue --------------- *)
\* the job of the first request was committed and its queue.add failed: the rows
\* are in place, the queue has no entry, and the request was answered 500
InitNotEnqueued(mode) ==
  /\ jobs = (PriorJob :> JobRow(PriorReq(mode)))
  /\ holds = (PriorJob :> HoldRow(PriorReq(mode)))
  /\ idem = {IdemRow(PriorReq(mode), PriorJob)}
  /\ ledger = {}
  /\ decisions = {}
  /\ queue = << >>
  /\ rq = [r \in Reqs |-> IF r = 1 THEN AnswerError(PriorReq(mode), "queue_error")
                          ELSE IdleReq]

\* the first request was answered, with its job enqueued, not enqueued, or enqueued
\* and canceled since; one more request arrives; the worker pool runs without store
\* failures
InitReplay ==
  /\ settings = [t1 |-> 20, t2 |-> 0]
  /\ \/ InitNotEnqueued("quick_boost")
     \/ /\ InitQueued("quick_boost") \/ InitCanceled("quick_boost")
        /\ rq = [r \in Reqs |-> IF r = 1 THEN AnsweredReq("quick_boost") ELSE IdleReq]
  /\ wk = [w \in Slots |-> IdleSlot]
  /\ adm = IdleAdmin
  /\ faults = 0
  /\ redeliveries = 0
  /\ adminOps = 0
  /\ events = {}
  /\ pend = {}
  /\ evFaults = MaxEventFaults
  /\ flag = NULL
  /\ flagSince = 0
  /\ flagOps = 0
  /\ clock = TickMs
  /\ cachedDegraded = [v |-> NULL, at |-> 0]
  /\ qr = NoQuery

\* the steps of an admission once its request has arrived
AdmissionSteps ==
  \E r \in Reqs :
    \/ IdemCheck(r)
    \/ ReadQuotaUsage(r)
    \/ ReadHoldsCheck(r)
    \/ InsertJobHold(r)
    \/ InsertIdem(r)
    \/ Commit(r)
    \/ Enqueue(r)

\* a fair queue, fair workers and a handler that carries every request through
SpecReplayFair ==
  InitReplay /\ [][NextAdmit \/ NextRun]_vars /\ WF_vars(NextRun) /\ WF_vars(AdmissionSteps)

(* ----------------------- the query endpoints --------------------------- *)
\* an authenticated tenant c asks for the status of job id j
StatusQuery(c, j) ==
  /\ qr' = [kind |-> "status", client_id |-> c, job_id |-> j,
            resp |-> StatusAnswer(jobs, c, j)]
  /\ UNCHANGED <<settings, jobs, holds, idem, ledger, decisions, queue, rq, wk, faults,
                 redeliveries, adm, adminOps, evVars, flag, flagSince, flagOps, clock,
                 cachedDegraded>>

\* an authenticated tenant c asks for the result of job id j
ResultQuery(c, j) ==
  /\ qr' = [kind |-> "result", client_id |-> c, job_id |-> j,
            resp |-> ResultAnswer(jobs, c, j)]
  /\ UNCHANGED <<settings, jobs, holds, idem, ledger, decisions, queue, rq, wk, faults,
                 redeliveries, adm, adminOps, evVars, flag, flagSince, flagOps, clock,
                 cachedDegraded>>

\* a job of tenant t1 runs while both tenants query job ids, known and unknown
InitQuery ==
  /\ settings = [t1 |-> 20, t2 |-> 0]
  /\ \E mode \in ALLOWED_MODES : InitQueued(mode) \/ InitCanceled(mode)
  /\ Quiet
  /\ flag = NULL

NextQuery ==
  \/ NextRun
  \/ \E c \in Tenants, j \in JobIds : StatusQuery(c, j) \/ ResultQuery(c, j)

SpecQuery == InitQuery /\ [][NextQuery]_vars

(* ======================= properties of admission ======================= *)
\* request r took a step
Stepped(r) == rq'[r] # rq[r]

\* request r has been answered with code
Answered(r, code) == rq[r].pc = "done" /\ rq[r].resp.code = code

\* the job rows created for (tenant c, token k)
JobsOfToken(c, k) ==
  {j \in DOMAIN jobs : jobs[j].client_id = c /\ jobs[j].idempotency_key = k}

\* request r carries the body that job j was created from
SameBody(r, j) ==
  jobs[j].request_json = [mode |-> rq[r].mode, items |-> rq[r].items]

\* C1: right after an admission of a tenant commits, the tenant's consumed units
\* plus its held holds are at most its monthly quota, also when admissions of the
\* tenant overlap.
C1_QuotaHoldsAfterCommit ==
  [][\A r \in Reqs :
       (rq[r].pc = "commit" /\ Stepped(r) /\ settings[rq[r].tenant] > 0)
         => ConsumedOf(ledger', rq[r].tenant) + HeldOf(holds', rq[r].tenant)
              <= settings[rq[r].tenant]]_vars

\* C2: once a job exists for (tenant, token), every answered request that carries
\* that token and the same body and met no store or queue failure is a success with
\* that job's id, and there is exactly one such job.
C2_SameTokenSameJob ==
  \A r \in Reqs :
    (/\ rq[r].pc = "done"
     /\ rq[r].key # NoKey
     /\ rq[r].log \notin {"store_error", "queue_error"}
     /\ JobsOfToken(rq[r].tenant, rq[r].key) # {}
     /\ \A j \in JobsOfToken(rq[r].tenant, rq[r].key) : SameBody(r, j))
      => /\ Cardinality(JobsOfToken(rq[r].tenant, rq[r].key)) = 1
         /\ rq[r].resp.code = "ok"
         /\ rq[r].resp.job_id \in JobsOfToken(rq[r].tenant, rq[r].key)

\* C3: a request whose (tenant, token) has an idempotency record is answered by its
\* idempotency check with the recorded job id, and that step leaves the job store,
\* the holds, the idempotency index and the queue as they are, whatever the job's
\* status and the tenant's remaining quota.
C3_IdempotentHit ==
  [][\A r \in Reqs :
       \A x \in idem :
         (/\ rq[r].pc = "begin"
          /\ Stepped(r)
          /\ x.client_id = rq[r].tenant
          /\ x.idem_key = rq[r].key)
           => /\ rq'[r].pc = "done"
              /\ rq'[r].resp.code = "ok"
              /\ rq'[r].resp.idempotent
              /\ rq'[r].resp.job_id = x.job_id
              /\ UNCHANGED <<jobs, holds, idem, queue>>]_vars

\* C3 witness: an idempotent hit on a job that is done, by a request that would not
\* fit the remaining quota
C3_Witness ==
  \E r \in Reqs :
    /\ Answered(r, "ok")
    /\ rq[r].resp.idempotent
    /\ jobs[rq[r].resp.job_id].status = "done"
    /\ rq[r].items = 2
    /\ rq[r].mode = "full_content"

\* C4: for a tenant with a configured monthly quota, 0 included, the quota test
\* rejects with quota_exceeded exactly when consumed + held + estimate exceeds the
\* configured quota.
C4_QuotaTestExact ==
  [][\A r \in Reqs :
       (rq[r].pc = "holds" /\ Stepped(r) /\ settings[rq[r].tenant] # NoRow)
         => ((rq'[r].resp.code = "quota_exceeded")
               <=> (rq[r].consumed + HeldOf(holds, rq[r].tenant) + rq[r].est
                      > settings[rq[r].tenant]))]_vars

\* C5: the step that answers schema_invalid or quota_exceeded leaves the job store,
\* the holds, the idempotency index, the ledger and the queue unchanged.
C5_RejectionNoEffect ==
  [][\A r \in Reqs :
       (rq[r].pc # "done" /\ rq'[r].pc = "done"
          /\ rq'[r].resp.code \in {"schema_invalid", "quota_exceeded"})
         => /\ UNCHANGED <<jobs, holds, idem, ledger, queue>>
            /\ r \notin DOMAIN jobs
            /\ r \notin DOMAIN holds
            /\ r \notin DOMAIN queue]_vars

\* C5 witness: one request rejected by validation, another by the quota test
C5_Witness ==
  /\ Answered(1, "schema_invalid")
  /\ Answered(2, "quota_exceeded")
  /\ DOMAIN jobs = {}

\* C6: with quota 20 and nothing consumed, a quick_boost request of 1 item read
\* against no hold passes the quota test with estimate 8 and commits a hold of 8;
\* a quick_boost request of 2 items read against that hold of 8 is rejected with
\* quota_exceeded, aej_needed 16 and aej_remaining 12.
C6_Scenario ==
  [][\A r \in Reqs :
       LET q == rq[r]
           held == HeldOf(holds, q.tenant)
       IN /\ (/\ q.pc = "holds" /\ Stepped(r)
              /\ q.quota = 20 /\ q.consumed = 0 /\ held = 0
              /\ q.mode = "quick_boost" /\ q.items = 1)
               => rq'[r].pc = "insert" /\ rq'[r].est = 8
          /\ (/\ q.pc = "commit" /\ Stepped(r)
              /\ q.mode = "quick_boost" /\ q.items = 1)
               => holds'[r].aej_estimated = 8 /\ holds'[r].status = "held"
          /\ (/\ q.pc = "holds" /\ Stepped(r)
              /\ q.quota = 20 /\ q.consumed = 0 /\ held = 8
              /\ q.mode = "quick_boost" /\ q.items = 2)
               => /\ rq'[r].resp.code = "quota_exceeded"
                  /\ rq'[r].resp.needed = 16
                  /\ rq'[r].resp.remaining = 12]_vars

\* C6 witness: the scenario has run on an empty store
C6_Witness ==
  /\ settings["t1"] = 20
  /\ ledger = {}
  /\ Answered(1, "ok") /\ rq[1].tenant = "t1"
  /\ rq[1].mode = "quick_boost" /\ rq[1].items = 1
  /\ DOMAIN holds = {1} /\ holds[1].aej_estimated = 8 /\ holds[1].status = "held"
  /\ Answered(2, "quota_exceeded") /\ rq[2].tenant = "t1"
  /\ rq[2].mode = "quick_boost" /\ rq[2].items = 2
  /\ rq[2].resp.remaining = 12

\* C7: in every state the job row, the hold row and (with a token) the idempotency
\* row of an admission exist together or not at all: each job of a request has its
\* hold with the same tenant and estimate and its idempotency row, each hold and
\* each idempotency row has its job, a new job is queued with progress 0 and a
\* held hold, and a request that failed on an insert left no row.
C7_AdmissionAtomic ==
  /\ DOMAIN jobs = DOMAIN holds
  /\ \A j \in DOMAIN jobs :
       /\ holds[j].client_id = jobs[j].client_id
       /\ holds[j].aej_estimated = jobs[j].aej_estimated
       /\ jobs[j].idempotency_key # NoKey
            => [client_id |-> jobs[j].client_id, idem_key |-> jobs[j].idempotency_key,
                job_id |-> j] \in idem
  /\ \A x \in idem :
       /\ x.job_id \in DOMAIN jobs
       /\ jobs[x.job_id].client_id = x.client_id
       /\ jobs[x.job_id].idempotency_key = x.idem_key
  /\ \A r \in Reqs :
       /\ r \in DOMAIN jobs
            => /\ jobs[r].status = "queued" /\ jobs[r].progress = 0
               /\ holds[r].status = "held"
               /\ rq[r].pc \in {"enqueue", "done"}
       /\ (rq[r].pc = "done" /\ rq[r].log \in {"store_error", "duplicate_key"})
            => r \notin DOMAIN jobs

\* C7 witness: one request committed its three rows, the other failed on its
\* idempotency insert and left none
C7_Witness ==
  \E r, o \in Reqs :
    /\ Answered(r, "job_create_error") /\ rq[r].log = "duplicate_key"
    /\ r \notin DOMAIN jobs
    /\ o \in DOMAIN jobs /\ jobs[o].idempotency_key = rq[r].key

\* C8: every job id in the queue has a committed job row and hold row, a request
\* is in the queue only once it is past its COMMIT, and a request that was rolled
\* back is never in the queue.
C8_EnqueueAfterCommit ==
  /\ \A j \in DOMAIN queue : j \in DOMAIN jobs /\ j \in DOMAIN holds
  /\ \A r \in Reqs :
       /\ r \in DOMAIN queue => Answered(r, "ok") /\ ~rq[r].resp.idempotent
       /\ (rq[r].pc = "done" /\ (rq[r].resp.code = "quota_exceeded"
                                   \/ rq[r].log \in {"store_error", "duplicate_key"}))
            => r \notin DOMAIN queue

\* C8 witness: an admitted job waits in the queue while another admission was
\* rolled back
C8_Witness ==
  \E r, o \in Reqs :
    /\ r \in DOMAIN queue
    /\ Answered(o, "job_create_error") /\ rq[o].log = "store_error"
    /\ o \notin DOMAIN queue

\* C9: when the enqueue fails after the commit, the client gets an error while the
\* job stays queued, its hold held and its idempotency row in place, and the job
\* is not in the queue.
C9_EnqueueFailureKeepsJob ==
  [][\A r \in Reqs :
       (rq[r].pc = "enqueue" /\ rq'[r].pc = "done" /\ rq'[r].resp.code # "ok")
         => /\ rq'[r].resp.code = "job_create_error"
            /\ r \in DOMAIN jobs' /\ jobs'[r].status = "queued"
            /\ r \in DOMAIN holds' /\ holds'[r].status = "held"
            /\ rq[r].key # NoKey => IdemRow(rq[r], r) \in idem'
            /\ r \notin DOMAIN queue']_vars

\* C9 witness: a request with a token was answered 500 after its commit
C9_Witness ==
  \E r \in Reqs :
    /\ Answered(r, "job_create_error") /\ rq[r].log = "queue_error"
    /\ rq[r].key # NoKey
    /\ jobs[r].status = "queued" /\ holds[r].status = "held"

(* ======================== properties of the worker ===================== *)
\* the cost of one run that the backend answered: the largest a run can log
MaxRunCost == computeAEJTotal(RunLedger("t1", PriorJob, "openai"), "t1", PriorJob)

\* C10: however often and however concurrently a job id is delivered, every step
\* that writes the ledger leaves at most one row per (tenant, job, stage) and a sum
\* per job of at most the cost of one run, and no step turns a released hold back
\* into a held one.
C10_DuplicateDelivery ==
  [][/\ ledger' # ledger
          => /\ \A c \in Tenants, j \in JobIds, st \in Stages :
                  Cardinality(LedgerRows(ledger', c, j, st)) <= 1
             /\ \A c \in Tenants, j \in JobIds :
                  computeAEJTotal(ledger', c, j) <= MaxRunCost
     /\ \A j \in DOMAIN holds :
          holds[j].status = "released"
            => j \in DOMAIN holds' /\ holds'[j].status = "released"]_vars

\* C10 witness: two slots run the same job at once with different generation
\* outcomes, both past their generation ledger write
C10_Witness ==
  /\ wk[1].job = wk[2].job
  /\ wk[1].pc = "total" /\ wk[2].pc = "total"
  /\ wk[1].source # wk[2].source
  /\ Cardinality(LedgerRows(ledger, "t1", PriorJob, "generation")) = 1

\* C13: a failing generation step is caught: the execution goes on to the ledger
\* write with source 'deterministic' and the message kept, its done write stores a
\* non-null fallback result with that source and message under status done, and no
\* step writes status error with a backend failure as its message.
C13_BackendFailureFallsBack ==
  [][\A w \in Slots :
       LET j == wk[w].job
       IN /\ (wk[w].pc = "gen" /\ wk'[w] # wk[w] /\ wk'[w].source # "openai")
               => /\ wk'[w].pc = "genlog"
                  /\ wk'[w].source = "deterministic"
                  /\ wk'[w].llm_error \in BackendErrors \cup {"Unsupported mode"}
                  /\ UNCHANGED <<jobs, queue>>
          /\ (wk[w].pc = "done" /\ wk'[w].pc = "dec2" /\ wk[w].source # "openai")
               => /\ jobs'[j].status = "done"
                  /\ ~jobs'[j].result.isnull
                  /\ jobs'[j].result.source = "deterministic"
                  /\ jobs'[j].result.llm_error = wk[w].llm_error
                  /\ jobs'[j].result.llm_error # NULL
          /\ (wk[w].pc = "fset" /\ wk'[w].pc = "frel")
               => jobs'[j].error_text \notin BackendErrors \cup {"Unsupported mode"}]_vars

\* C13 witness: a run whose backend call failed has finished with the job done on
\* the fallback
C13_Witness ==
  /\ \A w \in Slots : wk[w].pc = "idle"
  /\ jobs[PriorJob].status = "done"
  /\ jobs[PriorJob].result.source = "deterministic"
  /\ jobs[PriorJob].result.llm_error = "OPENAI_API_KEY_MISSING"
  /\ jobs[PriorJob].aej_final = 4

\* C15: in the worker pool (executions, redeliveries, automatic retry attempts and
\* the failure handler, no administrative retry), a status that is done, error or
\* canceled is never changed.
C15_TerminalStatusKept ==
  [][\A j \in DOMAIN jobs :
       jobs[j].status \in Terminal => jobs'[j].status = jobs[j].status]_vars

C20_ResultIffDone ==
  \A j \in DOMAIN jobs : (~jobs[j].result.isnull) <=> (jobs[j].status = "done")

\* C14: a stored fallback result has every top-level field the strict output schema
\* of the job's mode requires and no top-level field the schema does not define.
C14_FallbackShape ==
  \A j \in DOMAIN jobs :
    (~jobs[j].result.isnull /\ jobs[j].result.source = "deterministic")
      => /\ SchemaRequired(jobs[j].mode) \subseteq jobs[j].result.exec
         /\ jobs[j].result.exec \subseteq SchemaProperties(jobs[j].mode)

(* ================= properties of the administrative cancel ============= *)
\* job j is canceled and no worker loaded it before the cancel: it never ran, and
\* every execution of it in progress is about to load it or has read 'canceled'
CanceledBeforePickup(j) ==
  /\ jobs[j].status = "canceled"
  /\ jobs[j].progress = 0
  /\ computeAEJTotal(ledger, jobs[j].client_id, j) = 0
  /\ \A w \in Slots :
       (wk[w].pc # "idle" /\ wk[w].job = j)
         => (wk[w].pc = "load" \/ wk[w].seen = "canceled")

\* C11: once a job is canceled before any worker loaded it, no step of a later
\* delivery changes its status, writes the ledger or reaches the generation call,
\* and an execution of the job that ends leaves the hold released.
C11_CancelBeforePickup ==
  [][\A j \in DOMAIN jobs :
       CanceledBeforePickup(j)
         => /\ jobs'[j].status = "canceled"
            /\ ledger' = ledger
            /\ \A w \in Slots :
                 /\ wk'[w].job = j => wk'[w].pc \notin {"run", "gen", "genlog"}
                 /\ (wk[w].job = j /\ wk[w].pc # "idle" /\ wk'[w].pc = "idle")
                      => holds'[j].status = "released"]_vars

\* C12: when an administrative cancel that found the job queued or running
\* completes, through the endpoint or through cancelJob, the job's hold is not held.
C12_CancelReleasesHold ==
  [][(/\ adm.pc \in {"crel", "hrel"}
      /\ adm'.pc = "idle"
      /\ adm.st \in {"queued", "running"})
       => holds'[adm.job].status # "held"]_vars

(* ================= properties of the administrative retry ============== *)
\* C16: when a retry of a job that was done, error or canceled re-enqueues the job,
\* through the endpoint or through retryJob, the job has its hold row and the row's
\* status is held (the hold table has one row per job id).
C16_RetryHoldsAgain ==
  [][(/\ adm.pc \in {"radd", "uadd"}
      /\ adm'.pc = "idle"
      /\ adm.st \in Terminal)
       => /\ adm.job \in DOMAIN holds'
          /\ holds'[adm.job].status = "held"]_vars

\* C17: the job write of a retry, through either path, creates no job row and
\* leaves the job under its id with status queued, progress 0, no result, no error
\* text and no finish time.
C17_RetryResetsJob ==
  [][(/\ adm.pc \in {"rset", "uset"}
      /\ adm'.pc \in {"rhold", "uadd"})
       => /\ DOMAIN jobs' = DOMAIN jobs
          /\ jobs'[adm.job].status = "queued"
          /\ jobs'[adm.job].progress = 0
          /\ jobs'[adm.job].result.isnull
          /\ jobs'[adm.job].error_text = NULL
          /\ ~jobs'[adm.job].finished]_vars

\* a retry that found the job in error is about to re-enqueue it
RetryOfErrorJob == adm.pc \in {"radd", "uadd"} /\ adm.st = "error"

\* C18: with a fair queue and fair workers and no store failure, a retry of a job
\* in error leads to the job running, and a running job leads to a terminal status.
C18_RetriedJobRunsAgain ==
  /\ RetryOfErrorJob ~> (jobs[PriorJob].status = "running")
  /\ (jobs[PriorJob].status = "running") ~> (jobs[PriorJob].status \in Terminal)

(* ===================== properties of the quota holds =================== *)
\* the hold rows of job j whose status is held
HeldHolds(hs, j) == {k \in DOMAIN hs : k = j /\ hs[k].status = "held"}

\* job j has no hold row, or a released one
NothingToRelease(j) == j \notin DOMAIN holds \/ holds[j].status = "released"

\* C21: after every step each job has at most one held hold, and a release by a
\* worker execution, by the failure handler or by an administrative cancel that
\* finds the job's hold released or absent leaves the hold table as it was.
C21_OneHeldHoldIdempotentRelease ==
  [][/\ \A j \in JobIds : Cardinality(HeldHolds(holds', j)) <= 1
     /\ \A w \in Slots :
          (/\ wk[w].pc \in {"relc", "release", "frel"}
           /\ wk'[w].pc = "idle"
           /\ NothingToRelease(wk[w].job))
            => holds' = holds
     /\ (/\ adm.pc \in {"crel", "hrel"}
         /\ adm'.pc = "idle"
         /\ NothingToRelease(adm.job))
          => holds' = holds]_vars

\* C21 witness: a job without a hold row ran to its end with no administrative
\* request, its last statement being the release, and still has no hold row
C21_Witness ==
  /\ \A w \in Slots : wk[w].pc = "idle"
  /\ adminOps = 0
  /\ jobs[PriorJob].status = "done"
  /\ jobs[PriorJob].aej_final # NullInt
  /\ PriorJob \notin DOMAIN holds

(* ======================= properties of the event log =================== *)
\* C22: a step in which an event-log write returns, with its row inserted or with
\* its failure swallowed, changes nothing but the event log: no job, hold, ledger
\* row, decision, idempotency row or queue entry, and no position or answer of an
\* admission request, an administrative request or a worker execution (nothing is
\* thrown, nothing is retried); a failed write inserts no row.
C22_EventWriteFailureSwallowed ==
  [][(pend' # pend /\ pend' \subseteq pend)
       => /\ UNCHANGED <<settings, jobs, holds, idem, ledger, decisions, queue, rq, wk,
                         adm, faults, redeliveries, adminOps>>
          /\ events' \subseteq events \cup {EventRow(e) : e \in pend \ pend'}
          /\ evFaults' # evFaults => events' = events]_vars

\* C22 witness: the 'running' event of a run was lost, and the run ended as a run
\* does: job done with the backend's result, final cost set, hold released, the
\* later 'done' event logged
C22_Witness ==
  /\ evFaults = 1
  /\ pend = {}
  /\ \A w \in Slots : wk[w].pc = "idle"
  /\ jobs[PriorJob].status = "done"
  /\ jobs[PriorJob].result.source = "openai"
  /\ jobs[PriorJob].aej_final = MaxRunCost
  /\ holds[PriorJob].status = "released"
  /\ [job_id |-> PriorJob, event_type |-> "running"] \notin events
  /\ [job_id |-> PriorJob, event_type |-> "done"] \in events

(* ===================== properties of the decision log ================== *)
\* C23: an execution that stands at a decision-log write ('analysed' or 'modified')
\* goes on to its next statement whether or not the write succeeds: a failed write
\* is not thrown to the failure handler, does not put the job back in the queue and
\* changes no job, hold or ledger row.
C23_DecisionWriteFailureSwallowed ==
  [][\A w \in Slots :
       (wk[w].pc \in {"dec1", "dec2"} /\ wk'[w] # wk[w])
         => /\ wk'[w].pc = (IF wk[w].pc = "dec1" THEN "decision" ELSE "app")
            /\ UNCHANGED <<jobs, holds, ledger, queue>>]_vars

(* ================= properties of the force_degraded flag =============== *)
\* C24: when the generation step of an execution ends and the flag's value has not
\* changed since more than DEGRADED_TTL before the step began (its Date.now()), the
\* step follows the flag: with the flag on it ends with the fallback, the message
\* 'force_degraded' and no backend call (no event of a call), and with the flag off
\* or never set it does not end with 'force_degraded'.
C24_FlagFollowedWithinTtl ==
  [][\A w \in Slots :
       (/\ wk[w].pc = "gen"
        /\ wk'[w].pc = "genlog"
        /\ wk[w].now - flagSince > DEGRADED_TTL)
         => /\ flag = "1" => /\ wk'[w].source = "deterministic"
                             /\ wk'[w].llm_error = "force_degraded"
                             /\ events' = events
            /\ flag # "1" => wk'[w].llm_error # "force_degraded"]_vars

\* C24 witness: the flag was switched on during the run, and a generation step that
\* began more than DEGRADED_TTL later took the cached value and was forced to the
\* fallback
C24_Witness ==
  /\ flagOps = 1
  /\ flag = "1"
  /\ flagSince > 0
  /\ \E w \in Slots :
       /\ wk[w].pc = "genlog"
       /\ wk[w].forced = "yes"
       /\ wk[w].now - flagSince > DEGRADED_TTL
       /\ wk[w].llm_error = "force_degraded"

(* ==================== properties of the query endpoints ================ *)
\* C25: a status or result query answers with the job's status, progress, mode or
\* result exactly when the job id has a row owned by the asking tenant; for an
\* unknown id and for a job of another tenant the answer is the same job_not_found,
\* which carries no status, progress or result.
C25_QueryScopedToOwner ==
  [][qr' # qr
       => LET j == qr'.job_id
              c == qr'.client_id
          IN IF j \in DOMAIN jobs /\ jobs[j].client_id = c
             THEN /\ qr'.resp.code = "ok"
                  /\ qr'.resp.status = jobs[j].status
                  /\ qr'.resp.progress = jobs[j].progress
                  /\ qr'.kind = "result" => qr'.resp.result = jobs[j].result
             ELSE qr'.resp = NotFound]_vars

\* C25 witness: tenant t2 asked for the result of tenant t1's job, which is done
\* with a stored result, and got job_not_found
C25_Witness ==
  /\ qr.kind = "result"
  /\ qr.client_id = "t2"
  /\ qr.job_id = PriorJob
  /\ jobs[PriorJob].client_id = "t1"
  /\ jobs[PriorJob].status = "done"
  /\ ~jobs[PriorJob].result.isnull
  /\ qr.resp.code = "job_not_found"

(* ======================= properties of settlement ====================== *)
\* no worker execution of job j is in progress
NoExecution(j) == \A w \in Slots : wk[w].pc = "idle" \/ wk[w].job # j

\* C26: in every state, a job that is done, has no worker execution in progress and
\* is not waiting to be delivered has its hold released and a final cost.
C26_DoneIsSettled ==
  \A j \in DOMAIN jobs :
    (jobs[j].status = "done" /\ NoExecution(j) /\ j \notin DOMAIN queue)
      => /\ j \in DOMAIN holds => holds[j].status = "released"
         /\ jobs[j].aej_final # NullInt

\* C27: whenever a job's final cost is set and no execution of the job is in
\* progress, the final cost is the sum of the cost units of all ledger rows of
\* (tenant, job), whatever runs, duplicate deliveries and retries came before.
C27_FinalCostIsLedgerSum ==
  \A j \in DOMAIN jobs :
    (jobs[j].aej_final # NullInt /\ NoExecution(j))
      => jobs[j].aej_final =
           SumAej({x \in ledger : x.client_id = jobs[j].client_id /\ x.job_id = j})

\* C27 witness: a job that ended with a backend result was retried and delivered
\* once more, the later execution fell back, and every execution has ended
C27_Witness ==
  /\ jobs[PriorJob].aej_final # NullInt
  /\ NoExecution(PriorJob)
  /\ adm.pc = "idle" /\ adminOps = 1
  /\ redeliveries = 1
  /\ jobs[PriorJob].status = "done"
  /\ jobs[PriorJob].result.source = "deterministic"
  /\ \E x \in LedgerRows(ledger, "t1", PriorJob, "generation") : x.aej = 5

\* C28: for every job in status done, the generation row of its ledger carries the
\* cost of the outcome stored in its result: 5 when the result's source is the
\* backend, 1 when it is the fallback, also after a retry or a duplicate delivery
\* whose outcome differs from the first run's.
C28_GenerationCostMatchesResult ==
  \A j \in DOMAIN jobs :
    (jobs[j].status = "done" /\ ~jobs[j].result.isnull)
      => \E x \in LedgerRows(ledger, jobs[j].client_id, j, "generation") :
           x.aej = GenerationCost(jobs[j].result.source)

(* =============== properties of a cancel during an execution ============= *)
\* the positions of an execution after it marked the job running
MidFlight == {"analyse", "dec1", "decision", "p30", "gen", "genlog", "done", "dec2",
              "app", "total", "final", "release"}

\* the cancel's status write has just landed on job j while an execution of j is past
\* its running write (a write that landed before it is overwritten by 'running')
CancelLanded(j) ==
  /\ adm.pc \in {"cdeq", "hdeq"} /\ adm.job = j
  /\ j \in DOMAIN jobs /\ jobs[j].status = "canceled"
  /\ \E w \in Slots : wk[w].job = j /\ wk[w].pc \in MidFlight

HoldReleased(j) == j \in DOMAIN holds /\ holds[j].status = "released"

SettledTerminal(j) ==
  j \in DOMAIN jobs /\ jobs[j].status \in Terminal /\ HoldReleased(j)

DeliveredQueued(j) ==
  /\ j \in DOMAIN jobs /\ jobs[j].status = "queued"
  /\ \E w \in Slots : wk[w].pc = "load" /\ wk[w].job = j

DoneOrErrorReleased(j) ==
  j \in DOMAIN jobs /\ jobs[j].status \in {"done", "error"} /\ HoldReleased(j)

NotRunning(j) == j \in DOMAIN jobs => jobs[j].status # "running"

\* C30: with fair scheduling and a backend call that returns or fails, a job that is
\* delivered to a worker while its status is queued eventually is done or in error
\* with its hold released, and from some point on its status is never running.
C30_DeliveredJobSettles ==
  \A j \in JobIds :
    /\ DeliveredQueued(j) ~> DoneOrErrorReleased(j)
    /\ DeliveredQueued(j) ~> [](NotRunning(j) /\ DoneOrErrorReleased(j))

(* ====================== properties of the estimate ===================== *)
\* the unit cost of a mode as the specification states it
UnitCost(mode) ==
  CASE mode = "quick_boost" -> 8
    [] mode = "full_content" -> 12
    [] mode = "ecom_catalog" -> 12

\* C31: the commit of an admission stores unit cost of the mode times item count as
\* the estimate of the job and of its hold (8 for quick_boost, 12 for full_content
\* and ecom_catalog), and a request whose mode is not one of the three or whose item
\* count is 0 or above 50 is answered schema_invalid at once, with no estimate
\* computed and no row written.
C31_EstimateIsUnitCostTimesItems ==
  [][\A r \in Reqs :
       /\ (rq[r].pc = "commit" /\ Stepped(r))
            => /\ rq[r].mode \in ALLOWED_MODES
               /\ rq[r].items \in 1..ITEMS_MAX
               /\ jobs'[r].aej_estimated = UnitCost(rq[r].mode) * rq[r].items
               /\ holds'[r].aej_estimated = UnitCost(rq[r].mode) * rq[r].items
       /\ (/\ rq[r].pc = "idle" /\ Stepped(r)
           /\ \/ rq'[r].mode \notin ALLOWED_MODES
              \/ rq'[r].items = 0
              \/ rq'[r].items > ITEMS_MAX)
            => /\ rq'[r].pc = "done"
               /\ rq'[r].resp.code = "schema_invalid"
               /\ rq'[r].est = 0
               /\ jobs' = jobs /\ holds' = holds /\ idem' = idem]_vars

\* C31 witness: a full_content request of 2 items was admitted with an estimate of 24
\* on its job and on its hold, and a request of 51 items was answered schema_invalid
C31_Witness ==
  /\ Answered(1, "ok") /\ rq[1].mode = "full_content" /\ rq[1].items = 2
  /\ 1 \in DOMAIN jobs /\ jobs[1].aej_estimated = 24
  /\ 1 \in DOMAIN holds /\ holds[1].aej_estimated = 24
  /\ Answered(2, "schema_invalid") /\ rq[2].items = ITEMS_MAX + 1

(* ================= properties of the idempotency index ================= *)
\* C32: in every state each idempotency row points to an existing job of the same
\* tenant, and no step removes a row, changes its job id or adds a second row for
\* the same (tenant, token), whatever admissions, cancels, retries and worker
\* executions take place.
C32_IdempotencyRecordStable ==
  /\ [](\A x \in idem :
          x.job_id \in DOMAIN jobs /\ jobs[x.job_id].client_id = x.client_id)
  /\ [][/\ idem \subseteq idem'
        /\ \A x, y \in idem' :
             (x.client_id = y.client_id /\ x.idem_key = y.idem_key) => x = y]_vars

\* C32 witness: the second tenant was admitted with the token the first tenant's
\* earlier job carries, both rows exist, and a worker has run the new job to done
C32_Witness ==
  /\ IdemRow(PriorReq("quick_boost"), PriorJob) \in idem
  /\ [client_id |-> "t2", idem_key |-> "k1", job_id |-> 2] \in idem
  /\ Answered(2, "ok")
  /\ 2 \in DOMAIN jobs /\ jobs[2].status = "done"

C34_QuotaHoldsInEveryState ==
  \A c \in Tenants :
    settings[c] > 0 => ConsumedOf(ledger, c) + HeldOf(holds, c) <= settings[c]

(* ===================== properties of a queued job ====================== *)
\* C35: in every state a job whose status is queued has progress 0, no result and no
\* error text, also when an administrative retry or cancel interleaves with a worker
\* execution of the job.
C35_QueuedJobIsFresh ==
  \A j \in DOMAIN jobs :
    jobs[j].status = "queued"
      => /\ jobs[j].progress = 0
         /\ jobs[j].result.isnull
         /\ jobs[j].error_text = NULL

(* ================= properties of tenant isolation ====================== *)
\* the rows of tenant c alone: the store with every row of another tenant removed
OwnSettings(c) == [t \in Tenants |-> IF t = c THEN settings[t] ELSE NoRow]
OwnLedger(c) == {x \in ledger : x.client_id = c}
OwnHolds(c) == [j \in {i \in DOMAIN holds : holds[i].client_id = c} |-> holds[j]]
OwnIdem(c) == {x \in idem : x.client_id = c}

\* C36: every reading step of an admission of tenant A gives what it would give on
\* the store reduced to A's rows (the idempotency hit and its job, the quota and the
\* consumed amount, the quota test and the amounts of a rejection), so two stores
\* that differ in rows of other tenants give the same outcome; and rows of two
\* tenants with the same token point to two distinct jobs, each owned by its tenant.
C36_AdmissionSeesOwnRowsOnly ==
  [][/\ \A r \in Reqs :
          LET q == rq[r]
              A == q.tenant
              hit == IF q.key = NoKey THEN {} ELSE IdemLookup(OwnIdem(A), A, q.key)
              held == HeldOf(OwnHolds(A), A)
          IN /\ (q.pc = "begin" /\ Stepped(r))
                  => rq'[r] = IF hit # {}
                              THEN Answer(q, RespOk((CHOOSE x \in hit : TRUE).job_id, 0, TRUE))
                              ELSE [q EXCEPT !.pc = "usage"]
             /\ (q.pc = "usage" /\ Stepped(r))
                  => /\ rq'[r].quota = QuotaOf(OwnSettings(A), A)
                     /\ rq'[r].consumed = ConsumedOf(OwnLedger(A), A)
             /\ (q.pc = "holds" /\ Stepped(r))
                  => rq'[r] = IF OverQuota(q.consumed, held, q.est, q.quota)
                              THEN Answer(q, RespQuota(q.quota, q.consumed, held, q.est))
                              ELSE [q EXCEPT !.pc = "insert", !.held = held]
     /\ \A x, y \in idem' :
          (x.idem_key = y.idem_key /\ x.client_id # y.client_id)
            => /\ x.job_id # y.job_id
               /\ jobs'[x.job_id].client_id = x.client_id]_vars

\* C36 witness: tenant t2 was admitted with the token of tenant t1's earlier job, as
\* a new job of its own, while t1 has a ledger and a rejected request of its own
C36_Witness ==
  /\ IdemRow(PriorReq("quick_boost"), PriorJob) \in idem
  /\ OwnLedger("t1") # {}
  /\ Answered(1, "ok") /\ rq[1].tenant = "t2" /\ rq[1].key = "k1"
  /\ ~rq[1].resp.idempotent
  /\ [client_id |-> "t2", idem_key |-> "k1", job_id |-> 1] \in idem
  /\ Answered(2, "quota_exceeded") /\ rq[2].tenant = "t1" /\ rq[2].resp.consumed > 0

(* ============== properties of a repeated admission request ============= *)
\* a request with the token of job j was answered as an idempotent replay of j
Replayed(j) ==
  \E r \in Reqs :
    Answered(r, "ok") /\ rq[r].resp.idempotent /\ rq[r].resp.job_id = j

\* C37: with a fair queue and fair workers, a committed job whose request was
\* repeated with the same token (after an enqueue that succeeded or failed)
\* eventually is in a terminal status with its hold released.
C37_CommittedJobSettles ==
  \A j \in JobIds : (j \in DOMAIN jobs /\ Replayed(j)) ~> SettledTerminal(j)

\* C38: the answer of an idempotent replay reports the status the job has in the
\* store when the answer is made (queued, running, done, error or canceled).
C38_ReplayReportsStoredStatus ==
  [][\A r \in Reqs :
       (rq[r].pc = "begin" /\ Stepped(r) /\ rq'[r].resp.idempotent)
         => /\ rq'[r].resp.job_id \in DOMAIN jobs
            /\ rq'[r].resp.status = jobs[rq'[r].resp.job_id].status]_vars

====
